---------------------------- MODULE Spec2Model ----------------------------
(***************************************************************************)
(* The two line-table builders of scripts/:                                *)
(*   Variant A  generateLineData.py      main                              *)
(*   Variant B  parseWikipediaColors.py  generate_line_data, main          *)
(* A Python dict is modelled as the sequence of its <<key, value>> items   *)
(* in insertion order, with no key twice.  A colour is the tuple of its    *)
(* characters, so that prefixing "#" and the #RRGGBB format are computed.  *)
(* A run of a script is a sequence of steps, one per statement or loop     *)
(* iteration; a script may be run again (NumRuns) over the same constants. *)
(***************************************************************************)
EXTENDS Naturals, Sequences, FiniteSets

VARIABLES
  script,             \* "A" or "B": the script this process runs
  run,                \* number of the current run, 1..NumRuns
  pc,                 \* position of the run in the script
  error,              \* "none", or the exception that ended the run
  KANSAI_LINES,       \* module constants of generateLineData.py
  TOKYO_LINES,
  WIKIPEDIA_COLORS,   \* module constants of parseWikipediaColors.py
  JAPANESE_TO_WIKI,
  ADDITIONAL_COLORS,
  all_lines,          \* local of generateLineData.main
  output,             \* local of generate_line_data
  i,                  \* position of the running for loop in its items()
  line_data,          \* local of parseWikipediaColors.main
  written,            \* what has been written to the output file, one per write
  stdout              \* the numbers printed by the current run

tables == <<KANSAI_LINES, TOKYO_LINES, WIKIPEDIA_COLORS, JAPANESE_TO_WIKI,
            ADDITIONAL_COLORS>>

vars == <<script, run, pc, error, KANSAI_LINES, TOKYO_LINES, WIKIPEDIA_COLORS,
          JAPANESE_TO_WIKI, ADDITIONAL_COLORS, all_lines, output, i, line_data,
          written, stdout>>

\* Bounds of the model.
MaxEntries == 2     \* most items of a table that is not an embedded one
NumRuns == 2        \* runs of a script over the same constants

-----------------------------------------------------------------------------
(* Python dict operations *)

Keys(d) == {d[j][1] : j \in DOMAIN d}

\* k in d
Has(d, k) == \E j \in DOMAIN d : d[j][1] = k

IndexOf(d, k) == CHOOSE j \in DOMAIN d : d[j][1] = k

\* d[k], for k in d
Get(d, k) == d[IndexOf(d, k)][2]

\* d[k] = v: a new key goes last, a present key keeps its place
SetItem(d, k, v) ==
  IF Has(d, k) THEN [d EXCEPT ![IndexOf(d, k)] = <<k, v>>]
               ELSE Append(d, <<k, v>>)

\* ItemAt with an iteration order that is not fixed from run to run
ItemAtUnstable(d, j) == d[IF run = 1 THEN j ELSE Len(d) + 1 - j]

\* The j-th item that iterating d (d.items(), or update's walk of d) yields:
\* insertion order, the same in every run.
ItemAt(d, j) == d[j]

\* The items that iterating d yields, in iteration order
Items(d) == [j \in DOMAIN d |-> ItemAt(d, j)]

\* Update that keeps the value of a key already in d
UpdateKeepFirst(d, other) ==
  d \o SelectSeq([j \in DOMAIN other |-> ItemAt(other, j)], LAMBDA it : ~Has(d, it[1]))

\* Update that takes a key of d out and puts it back last
UpdateMoveLast(d, other) ==
  SelectSeq(d, LAMBDA it : ~Has(other, it[1]))
  \o [j \in DOMAIN other |-> ItemAt(other, j)]

\* d.update(other): every item of other is set in d, in the order in which
\* iterating other yields them.  A key of d takes other's value and keeps its
\* place; the keys new to d follow, in that order.
Update(d, other) ==
  [j \in DOMAIN d |->
     IF Has(other, d[j][1]) THEN <<d[j][1], Get(other, d[j][1])>> ELSE d[j]]
  \o SelectSeq(Items(other), LAMBDA it : ~Has(d, it[1]))

\* The place of the last item of the list `items` that has the key of item j
LastListed(items, j) ==
  CHOOSE m \in DOMAIN items :
    /\ items[m][1] = items[j][1]
    /\ \A n \in DOMAIN items : items[n][1] = items[j][1] => n <= m

\* DictLiteral with the first value of a key listed twice kept
DictLiteralFirstWins(items) ==
  LET first == SelectSeq([j \in DOMAIN items |-> j],
                         LAMBDA j : \A n \in 1..(j - 1) : items[n][1] # items[j][1])
  IN [n \in DOMAIN first |-> items[first[n]]]

\* The dict a dict display {k1: v1, k2: v2, ...} evaluates to: the items are
\* set left to right, so a key listed twice keeps its first place and takes
\* its last value.
DictLiteral(items) ==
  LET first == SelectSeq([j \in DOMAIN items |-> j],
                         LAMBDA j : \A n \in 1..(j - 1) : items[n][1] # items[j][1])
  IN [n \in DOMAIN first |->
        <<items[first[n]][1], items[LastListed(items, first[n])][2]>>]

-----------------------------------------------------------------------------
(* The embedded constants *)

\* generateLineData.py: the items of the dict literal TOKYO_LINES, in source order
\* (lines 11-162). Characters outside ASCII are written {XXXX}, their code point;
\* a colour is the tuple of its characters.
TokyoLinesLiteral ==
  <<
     <<"{9280}{5EA7}{7DDA}", [color |-> <<"#", "F", "F", "9", "5", "0", "0">>, en |-> "Ginza Line"]>>,  \* 13: 銀座線
     <<"1{53F7}{7DDA}{9280}{5EA7}{7DDA}", [color |-> <<"#", "F", "F", "9", "5", "0", "0">>, en |-> "Ginza Line"]>>,  \* 14: 1号線銀座線
     <<"3{53F7}{7DDA}{9280}{5EA7}{7DDA}", [color |-> <<"#", "F", "F", "9", "5", "0", "0">>, en |-> "Ginza Line"]>>,  \* 15: 3号線銀座線
     <<"3{53F7}{7DDA}", [color |-> <<"#", "F", "F", "9", "5", "0", "0">>, en |-> "Ginza Line"]>>,  \* 16: 3号線
     <<"{65E5}{6BD4}{8C37}{7DDA}", [color |-> <<"#", "B", "5", "B", "5", "A", "C">>, en |-> "Hibiya Line"]>>,  \* 17: 日比谷線
     <<"2{53F7}{7DDA}{65E5}{6BD4}{8C37}{7DDA}", [color |-> <<"#", "B", "5", "B", "5", "A", "C">>, en |-> "Hibiya Line"]>>,  \* 18: 2号線日比谷線
     <<"{4E38}{30CE}{5185}{7DDA}", [color |-> <<"#", "F", "6", "2", "E", "3", "6">>, en |-> "Marunouchi Line"]>>,  \* 19: 丸ノ内線
     <<"4{53F7}{7DDA}{4E38}{30CE}{5185}{7DDA}", [color |-> <<"#", "F", "6", "2", "E", "3", "6">>, en |-> "Marunouchi Line"]>>,  \* 20: 4号線丸ノ内線
     <<"4{53F7}{7DDA}", [color |-> <<"#", "F", "6", "2", "E", "3", "6">>, en |-> "Marunouchi Line"]>>,  \* 21: 4号線
     <<"4{53F7}{7DDA}{4E38}{30CE}{5185}{7DDA}{5206}{5C90}{7DDA}", [color |-> <<"#", "F", "6", "2", "E", "3", "6">>, en |-> "Marunouchi Branch Line"]>>,  \* 22: 4号線丸ノ内線分岐線
     <<"{6771}{897F}{7DDA}", [color |-> <<"#", "0", "0", "9", "B", "B", "F">>, en |-> "Tozai Line"]>>,  \* 23: 東西線
     <<"5{53F7}{7DDA}{6771}{897F}{7DDA}", [color |-> <<"#", "0", "0", "9", "B", "B", "F">>, en |-> "Tozai Line"]>>,  \* 24: 5号線東西線
     <<"{5343}{4EE3}{7530}{7DDA}", [color |-> <<"#", "0", "0", "A", "6", "5", "0">>, en |-> "Chiyoda Line"]>>,  \* 25: 千代田線
     <<"9{53F7}{7DDA}{5343}{4EE3}{7530}{7DDA}", [color |-> <<"#", "0", "0", "A", "6", "5", "0">>, en |-> "Chiyoda Line"]>>,  \* 26: 9号線千代田線
     <<"{6709}{697D}{753A}{7DDA}", [color |-> <<"#", "C", "1", "A", "4", "7", "0">>, en |-> "Yurakucho Line"]>>,  \* 27: 有楽町線
     <<"8{53F7}{7DDA}{6709}{697D}{753A}{7DDA}", [color |-> <<"#", "C", "1", "A", "4", "7", "0">>, en |-> "Yurakucho Line"]>>,  \* 28: 8号線有楽町線
     <<"{534A}{8535}{9580}{7DDA}", [color |-> <<"#", "8", "F", "7", "6", "D", "6">>, en |-> "Hanzomon Line"]>>,  \* 29: 半蔵門線
     <<"11{53F7}{7DDA}{534A}{8535}{9580}{7DDA}", [color |-> <<"#", "8", "F", "7", "6", "D", "6">>, en |-> "Hanzomon Line"]>>,  \* 30: 11号線半蔵門線
     <<"{5357}{5317}{7DDA}", [color |-> <<"#", "0", "0", "A", "C", "9", "B">>, en |-> "Namboku Line"]>>,  \* 31: 南北線
     <<"7{53F7}{7DDA}{5357}{5317}{7DDA}", [color |-> <<"#", "0", "0", "A", "C", "9", "B">>, en |-> "Namboku Line"]>>,  \* 32: 7号線南北線
     <<"{526F}{90FD}{5FC3}{7DDA}", [color |-> <<"#", "9", "C", "5", "E", "3", "1">>, en |-> "Fukutoshin Line"]>>,  \* 33: 副都心線
     <<"13{53F7}{7DDA}{526F}{90FD}{5FC3}{7DDA}", [color |-> <<"#", "9", "C", "5", "E", "3", "1">>, en |-> "Fukutoshin Line"]>>,  \* 34: 13号線副都心線
     <<"{6D45}{8349}{7DDA}", [color |-> <<"#", "E", "8", "5", "2", "9", "8">>, en |-> "Asakusa Line"]>>,  \* 37: 浅草線
     <<"1{53F7}{7DDA}{6D45}{8349}{7DDA}", [color |-> <<"#", "E", "8", "5", "2", "9", "8">>, en |-> "Asakusa Line"]>>,  \* 38: 1号線浅草線
     <<"{4E09}{7530}{7DDA}", [color |-> <<"#", "0", "0", "7", "9", "C", "2">>, en |-> "Mita Line"]>>,  \* 39: 三田線
     <<"6{53F7}{7DDA}{4E09}{7530}{7DDA}", [color |-> <<"#", "0", "0", "7", "9", "C", "2">>, en |-> "Mita Line"]>>,  \* 40: 6号線三田線
     <<"{65B0}{5BBF}{7DDA}", [color |-> <<"#", "6", "C", "B", "B", "5", "A">>, en |-> "Shinjuku Line"]>>,  \* 41: 新宿線
     <<"10{53F7}{7DDA}{65B0}{5BBF}{7DDA}", [color |-> <<"#", "6", "C", "B", "B", "5", "A">>, en |-> "Shinjuku Line"]>>,  \* 42: 10号線新宿線
     <<"{5927}{6C5F}{6238}{7DDA}", [color |-> <<"#", "B", "6", "0", "0", "7", "A">>, en |-> "Oedo Line"]>>,  \* 43: 大江戸線
     <<"12{53F7}{7DDA}{5927}{6C5F}{6238}{7DDA}", [color |-> <<"#", "B", "6", "0", "0", "7", "A">>, en |-> "Oedo Line"]>>,  \* 44: 12号線大江戸線
     <<"{5C71}{624B}{7DDA}", [color |-> <<"#", "9", "A", "C", "D", "3", "2">>, en |-> "Yamanote Line"]>>,  \* 47: 山手線
     <<"{4E2D}{592E}{7DDA}", [color |-> <<"#", "F", "F", "4", "5", "0", "0">>, en |-> "Chuo Line"]>>,  \* 48: 中央線
     <<"{4E2D}{592E}{7DDA}{5FEB}{901F}", [color |-> <<"#", "F", "F", "4", "5", "0", "0">>, en |-> "Chuo Rapid Line"]>>,  \* 49: 中央線快速
     <<"{4E2D}{592E}{30FB}{7DCF}{6B66}{7DDA}", [color |-> <<"#", "F", "F", "D", "7", "0", "0">>, en |-> "Chuo-Sobu Line"]>>,  \* 50: 中央・総武線
     <<"{7DCF}{6B66}{7DDA}", [color |-> <<"#", "F", "F", "D", "7", "0", "0">>, en |-> "Sobu Line"]>>,  \* 51: 総武線
     <<"{7DCF}{6B66}{672C}{7DDA}", [color |-> <<"#", "F", "F", "D", "7", "0", "0">>, en |-> "Sobu Line"]>>,  \* 52: 総武本線
     <<"{4EAC}{6D5C}{6771}{5317}{7DDA}", [color |-> <<"#", "0", "0", "B", "F", "F", "F">>, en |-> "Keihin-Tohoku Line"]>>,  \* 53: 京浜東北線
     <<"{6771}{6D77}{9053}{7DDA}", [color |-> <<"#", "F", "F", "8", "C", "0", "0">>, en |-> "Tokaido Line"]>>,  \* 54: 東海道線
     <<"{6771}{6D77}{9053}{65B0}{5E79}{7DDA}", [color |-> <<"#", "0", "0", "7", "2", "B", "C">>, en |-> "Tokaido Shinkansen"]>>,  \* 55: 東海道新幹線
     <<"{6A2A}{9808}{8CC0}{7DDA}", [color |-> <<"#", "0", "F", "4", "C", "9", "A">>, en |-> "Yokosuka Line"]>>,  \* 56: 横須賀線
     <<"{57FC}{4EAC}{7DDA}", [color |-> <<"#", "2", "2", "8", "B", "2", "2">>, en |-> "Saikyo Line"]>>,  \* 57: 埼京線
     <<"{8D64}{7FBD}{7DDA}{FF08}{57FC}{4EAC}{7DDA}{FF09}", [color |-> <<"#", "2", "2", "8", "B", "2", "2">>, en |-> "Saikyo Line"]>>,  \* 58: 赤羽線（埼京線）
     <<"{6771}{5317}{7DDA}{FF08}{57FC}{4EAC}{7DDA}{FF09}", [color |-> <<"#", "2", "2", "8", "B", "2", "2">>, en |-> "Saikyo Line"]>>,  \* 59: 東北線（埼京線）
     <<"{6E58}{5357}{65B0}{5BBF}{30E9}{30A4}{30F3}", [color |-> <<"#", "F", "F", "4", "5", "0", "0">>, en |-> "Shonan-Shinjuku Line"]>>,  \* 60: 湘南新宿ライン
     <<"{5E38}{78D0}{7DDA}", [color |-> <<"#", "0", "0", "B", "2", "6", "1">>, en |-> "Joban Line"]>>,  \* 61: 常磐線
     <<"{5E38}{78D0}{7DDA}{5FEB}{901F}", [color |-> <<"#", "0", "0", "B", "2", "6", "1">>, en |-> "Joban Rapid Line"]>>,  \* 62: 常磐線快速
     <<"{5E38}{78D0}{65B0}{7DDA}", [color |-> <<"#", "0", "0", "6", "6", "C", "C">>, en |-> "Tsukuba Express"]>>,  \* 63: 常磐新線
     <<"{4EAC}{8449}{7DDA}", [color |-> <<"#", "C", "9", "2", "4", "2", "F">>, en |-> "Keiyo Line"]>>,  \* 64: 京葉線
     <<"{6B66}{8535}{91CE}{7DDA}", [color |-> <<"#", "F", "F", "6", "6", "0", "0">>, en |-> "Musashino Line"]>>,  \* 65: 武蔵野線
     <<"{5357}{6B66}{7DDA}", [color |-> <<"#", "F", "F", "D", "4", "0", "0">>, en |-> "Nambu Line"]>>,  \* 66: 南武線
     <<"{6A2A}{6D5C}{7DDA}", [color |-> <<"#", "7", "C", "F", "C", "0", "0">>, en |-> "Yokohama Line"]>>,  \* 67: 横浜線
     <<"{9752}{6885}{7DDA}", [color |-> <<"#", "F", "F", "4", "5", "0", "0">>, en |-> "Ome Line"]>>,  \* 68: 青梅線
     <<"{6771}{5317}{7DDA}", [color |-> <<"#", "F", "6", "8", "B", "1", "E">>, en |-> "Tohoku Line"]>>,  \* 69: 東北線
     <<"{6771}{5317}{672C}{7DDA}", [color |-> <<"#", "F", "6", "8", "B", "1", "E">>, en |-> "Tohoku Line"]>>,  \* 70: 東北本線
     <<"{6771}{5317}{65B0}{5E79}{7DDA}", [color |-> <<"#", "0", "0", "B", "2", "6", "1">>, en |-> "Tohoku Shinkansen"]>>,  \* 71: 東北新幹線
     <<"{9DB4}{898B}{7DDA}", [color |-> <<"#", "F", "F", "C", "C", "0", "0">>, en |-> "Tsurumi Line"]>>,  \* 72: 鶴見線
     <<"{6771}{6A2A}{7DDA}", [color |-> <<"#", "D", "A", "0", "4", "4", "2">>, en |-> "Tokyu Toyoko Line"]>>,  \* 75: 東横線
     <<"{6771}{6025}{6771}{6A2A}{7DDA}", [color |-> <<"#", "D", "A", "0", "4", "4", "2">>, en |-> "Tokyu Toyoko Line"]>>,  \* 76: 東急東横線
     <<"{7530}{5712}{90FD}{5E02}{7DDA}", [color |-> <<"#", "0", "0", "A", "0", "4", "0">>, en |-> "Tokyu Den-en-toshi Line"]>>,  \* 77: 田園都市線
     <<"{6771}{6025}{7530}{5712}{90FD}{5E02}{7DDA}", [color |-> <<"#", "0", "0", "A", "0", "4", "0">>, en |-> "Tokyu Den-en-toshi Line"]>>,  \* 78: 東急田園都市線
     <<"{76EE}{9ED2}{7DDA}", [color |-> <<"#", "0", "0", "9", "C", "D", "2">>, en |-> "Tokyu Meguro Line"]>>,  \* 79: 目黒線
     <<"{6771}{6025}{76EE}{9ED2}{7DDA}", [color |-> <<"#", "0", "0", "9", "C", "D", "2">>, en |-> "Tokyu Meguro Line"]>>,  \* 80: 東急目黒線
     <<"{5927}{4E95}{753A}{7DDA}", [color |-> <<"#", "F", "1", "8", "C", "0", "0">>, en |-> "Tokyu Oimachi Line"]>>,  \* 81: 大井町線
     <<"{6771}{6025}{5927}{4E95}{753A}{7DDA}", [color |-> <<"#", "F", "1", "8", "C", "0", "0">>, en |-> "Tokyu Oimachi Line"]>>,  \* 82: 東急大井町線
     <<"{6C60}{4E0A}{7DDA}", [color |-> <<"#", "E", "E", "8", "6", "A", "7">>, en |-> "Tokyu Ikegami Line"]>>,  \* 83: 池上線
     <<"{6771}{6025}{6C60}{4E0A}{7DDA}", [color |-> <<"#", "E", "E", "8", "6", "A", "7">>, en |-> "Tokyu Ikegami Line"]>>,  \* 84: 東急池上線
     <<"{591A}{6469}{5DDD}{7DDA}", [color |-> <<"#", "A", "E", "0", "3", "7", "8">>, en |-> "Tokyu Tamagawa Line"]>>,  \* 85: 多摩川線
     <<"{6771}{6025}{591A}{6469}{5DDD}{7DDA}", [color |-> <<"#", "A", "E", "0", "3", "7", "8">>, en |-> "Tokyu Tamagawa Line"]>>,  \* 86: 東急多摩川線
     <<"{4E16}{7530}{8C37}{7DDA}", [color |-> <<"#", "E", "E", "8", "6", "A", "7">>, en |-> "Tokyu Setagaya Line"]>>,  \* 87: 世田谷線
     <<"{3053}{3069}{3082}{306E}{56FD}{7DDA}", [color |-> <<"#", "4", "5", "B", "8", "E", "8">>, en |-> "Kodomonokuni Line"]>>,  \* 88: こどもの国線
     <<"{5C0F}{7530}{6025}{7DDA}", [color |-> <<"#", "1", "E", "9", "0", "F", "F">>, en |-> "Odakyu Line"]>>,  \* 91: 小田急線
     <<"{5C0F}{7530}{539F}{7DDA}", [color |-> <<"#", "1", "E", "9", "0", "F", "F">>, en |-> "Odakyu Odawara Line"]>>,  \* 92: 小田原線
     <<"{5C0F}{7530}{6025}{5C0F}{7530}{539F}{7DDA}", [color |-> <<"#", "1", "E", "9", "0", "F", "F">>, en |-> "Odakyu Odawara Line"]>>,  \* 93: 小田急小田原線
     <<"{6C5F}{30CE}{5CF6}{7DDA}", [color |-> <<"#", "1", "E", "9", "0", "F", "F">>, en |-> "Odakyu Enoshima Line"]>>,  \* 94: 江ノ島線
     <<"{5C0F}{7530}{6025}{6C5F}{30CE}{5CF6}{7DDA}", [color |-> <<"#", "1", "E", "9", "0", "F", "F">>, en |-> "Odakyu Enoshima Line"]>>,  \* 95: 小田急江ノ島線
     <<"{591A}{6469}{7DDA}", [color |-> <<"#", "1", "E", "9", "0", "F", "F">>, en |-> "Odakyu Tama Line"]>>,  \* 96: 多摩線
     <<"{5C0F}{7530}{6025}{591A}{6469}{7DDA}", [color |-> <<"#", "1", "E", "9", "0", "F", "F">>, en |-> "Odakyu Tama Line"]>>,  \* 97: 小田急多摩線
     <<"{4EAC}{738B}{7DDA}", [color |-> <<"#", "D", "D", "0", "0", "7", "7">>, en |-> "Keio Line"]>>,  \* 100: 京王線
     <<"{4E95}{306E}{982D}{7DDA}", [color |-> <<"#", "1", "E", "9", "0", "F", "F">>, en |-> "Keio Inokashira Line"]>>,  \* 101: 井の頭線
     <<"{4EAC}{738B}{4E95}{306E}{982D}{7DDA}", [color |-> <<"#", "1", "E", "9", "0", "F", "F">>, en |-> "Keio Inokashira Line"]>>,  \* 102: 京王井の頭線
     <<"{76F8}{6A21}{539F}{7DDA}", [color |-> <<"#", "D", "D", "0", "0", "7", "7">>, en |-> "Keio Sagamihara Line"]>>,  \* 103: 相模原線
     <<"{52D5}{7269}{5712}{7DDA}", [color |-> <<"#", "D", "D", "0", "0", "7", "7">>, en |-> "Keio Dobutsuen Line"]>>,  \* 104: 動物園線
     <<"{7AF6}{99AC}{5834}{7DDA}", [color |-> <<"#", "D", "D", "0", "0", "7", "7">>, en |-> "Keio Keibajo Line"]>>,  \* 105: 競馬場線
     <<"{6C60}{888B}{7DDA}", [color |-> <<"#", "0", "0", "3", "3", "9", "9">>, en |-> "Seibu Ikebukuro Line"]>>,  \* 108: 池袋線
     <<"{897F}{6B66}{6C60}{888B}{7DDA}", [color |-> <<"#", "0", "0", "3", "3", "9", "9">>, en |-> "Seibu Ikebukuro Line"]>>,  \* 109: 西武池袋線
     <<"{897F}{6B66}{65B0}{5BBF}{7DDA}", [color |-> <<"#", "0", "0", "3", "3", "9", "9">>, en |-> "Seibu Shinjuku Line"]>>,  \* 110: 西武新宿線
     <<"{62DD}{5CF6}{7DDA}", [color |-> <<"#", "0", "0", "3", "3", "9", "9">>, en |-> "Seibu Haijima Line"]>>,  \* 111: 拝島線
     <<"{591A}{6469}{6E56}{7DDA}", [color |-> <<"#", "0", "0", "3", "3", "9", "9">>, en |-> "Seibu Tamako Line"]>>,  \* 112: 多摩湖線
     <<"{56FD}{5206}{5BFA}{7DDA}", [color |-> <<"#", "0", "0", "3", "3", "9", "9">>, en |-> "Seibu Kokubunji Line"]>>,  \* 113: 国分寺線
     <<"{897F}{6B66}{5712}{7DDA}", [color |-> <<"#", "0", "0", "3", "3", "9", "9">>, en |-> "Seibu-en Line"]>>,  \* 114: 西武園線
     <<"{897F}{6B66}{6709}{697D}{753A}{7DDA}", [color |-> <<"#", "0", "0", "3", "3", "9", "9">>, en |-> "Seibu Yurakucho Line"]>>,  \* 115: 西武有楽町線
     <<"{72ED}{5C71}{7DDA}", [color |-> <<"#", "0", "0", "3", "3", "9", "9">>, en |-> "Seibu Sayama Line"]>>,  \* 116: 狭山線
     <<"{8C4A}{5CF6}{7DDA}", [color |-> <<"#", "0", "0", "3", "3", "9", "9">>, en |-> "Seibu Toshima Line"]>>,  \* 117: 豊島線
     <<"{5C71}{53E3}{7DDA}", [color |-> <<"#", "0", "0", "3", "3", "9", "9">>, en |-> "Seibu Yamaguchi Line"]>>,  \* 118: 山口線
     <<"{6771}{4E0A}{672C}{7DDA}", [color |-> <<"#", "0", "0", "6", "0", "C", "F">>, en |-> "Tobu Tojo Line"]>>,  \* 121: 東上本線
     <<"{6771}{6B66}{6771}{4E0A}{7DDA}", [color |-> <<"#", "0", "0", "6", "0", "C", "F">>, en |-> "Tobu Tojo Line"]>>,  \* 122: 東武東上線
     <<"{4F0A}{52E2}{5D0E}{7DDA}", [color |-> <<"#", "0", "0", "6", "0", "C", "F">>, en |-> "Tobu Isesaki Line"]>>,  \* 123: 伊勢崎線
     <<"{6771}{6B66}{4F0A}{52E2}{5D0E}{7DDA}", [color |-> <<"#", "0", "0", "6", "0", "C", "F">>, en |-> "Tobu Isesaki Line"]>>,  \* 124: 東武伊勢崎線
     <<"{6771}{6B66}{30B9}{30AB}{30A4}{30C4}{30EA}{30FC}{30E9}{30A4}{30F3}", [color |-> <<"#", "0", "0", "6", "0", "C", "F">>, en |-> "Tobu Skytree Line"]>>,  \* 125: 東武スカイツリーライン
     <<"{4E80}{6238}{7DDA}", [color |-> <<"#", "0", "0", "6", "0", "C", "F">>, en |-> "Tobu Kameido Line"]>>,  \* 126: 亀戸線
     <<"{5927}{5E2B}{7DDA}", [color |-> <<"#", "0", "0", "6", "0", "C", "F">>, en |-> "Tobu Daishi Line"]>>,  \* 127: 大師線
     <<"{91CE}{7530}{7DDA}", [color |-> <<"#", "0", "0", "6", "0", "C", "F">>, en |-> "Tobu Urban Park Line"]>>,  \* 128: 野田線
     <<"{672C}{7DDA}", [color |-> <<"#", "1", "E", "5", "0", "A", "2">>, en |-> "Keisei Main Line"]>>,  \* 131: 本線
     <<"{4EAC}{6210}{672C}{7DDA}", [color |-> <<"#", "1", "E", "5", "0", "A", "2">>, en |-> "Keisei Main Line"]>>,  \* 132: 京成本線
     <<"{62BC}{4E0A}{7DDA}", [color |-> <<"#", "1", "E", "5", "0", "A", "2">>, en |-> "Keisei Oshiage Line"]>>,  \* 133: 押上線
     <<"{4EAC}{6210}{62BC}{4E0A}{7DDA}", [color |-> <<"#", "1", "E", "5", "0", "A", "2">>, en |-> "Keisei Oshiage Line"]>>,  \* 134: 京成押上線
     <<"{91D1}{753A}{7DDA}", [color |-> <<"#", "1", "E", "5", "0", "A", "2">>, en |-> "Keisei Kanamachi Line"]>>,  \* 135: 金町線
     <<"{6210}{7530}{7A7A}{6E2F}{7DDA}", [color |-> <<"#", "1", "E", "5", "0", "A", "2">>, en |-> "Narita Sky Access"]>>,  \* 136: 成田空港線
     <<"{7A7A}{6E2F}{7DDA}", [color |-> <<"#", "E", "8", "3", "3", "4", "A">>, en |-> "Keikyu Airport Line"]>>,  \* 139: 空港線
     <<"{4EAC}{6025}{672C}{7DDA}", [color |-> <<"#", "E", "8", "3", "3", "4", "A">>, en |-> "Keikyu Main Line"]>>,  \* 140: 京急本線
     <<"{4EAC}{6025}{7DDA}", [color |-> <<"#", "E", "8", "3", "3", "4", "A">>, en |-> "Keikyu Line"]>>,  \* 141: 京急線
     <<"{308A}{3093}{304B}{3044}{7DDA}", [color |-> <<"#", "0", "0", "A", "3", "E", "0">>, en |-> "Rinkai Line"]>>,  \* 144: りんかい線
     <<"{6771}{4EAC}{81E8}{6D77}{65B0}{4EA4}{901A}{81E8}{6D77}{7DDA}", [color |-> <<"#", "0", "0", "B", "7", "C", "E">>, en |-> "Yurikamome"]>>,  \* 145: 東京臨海新交通臨海線
     <<"{3086}{308A}{304B}{3082}{3081}", [color |-> <<"#", "0", "0", "B", "7", "C", "E">>, en |-> "Yurikamome"]>>,  \* 146: ゆりかもめ
     <<"{6771}{4EAC}{30E2}{30CE}{30EC}{30FC}{30EB}{7FBD}{7530}{7DDA}", [color |-> <<"#", "0", "0", "A", "7", "D", "B">>, en |-> "Tokyo Monorail"]>>,  \* 147: 東京モノレール羽田線
     <<"{6771}{4EAC}{30E2}{30CE}{30EC}{30FC}{30EB}", [color |-> <<"#", "0", "0", "A", "7", "D", "B">>, en |-> "Tokyo Monorail"]>>,  \* 148: 東京モノレール
     <<"{591A}{6469}{90FD}{5E02}{30E2}{30CE}{30EC}{30FC}{30EB}{7DDA}", [color |-> <<"#", "F", "3", "9", "8", "0", "0">>, en |-> "Tama Monorail"]>>,  \* 149: 多摩都市モノレール線
     <<"{591A}{6469}{30E2}{30CE}{30EC}{30FC}{30EB}", [color |-> <<"#", "F", "3", "9", "8", "0", "0">>, en |-> "Tama Monorail"]>>,  \* 150: 多摩モノレール
     <<"{65E5}{66AE}{91CC}{30FB}{820E}{4EBA}{7DDA}", [color |-> <<"#", "F", "F", "6", "9", "B", "4">>, en |-> "Nippori-Toneri Liner"]>>,  \* 151: 日暮里・舎人線
     <<"{65E5}{66AE}{91CC}{30FB}{820E}{4EBA}{30E9}{30A4}{30CA}{30FC}", [color |-> <<"#", "F", "F", "6", "9", "B", "4">>, en |-> "Nippori-Toneri Liner"]>>,  \* 152: 日暮里・舎人ライナー
     <<"{57FC}{7389}{9AD8}{901F}{9244}{9053}{7DDA}", [color |-> <<"#", "2", "C", "7", "4", "B", "E">>, en |-> "Saitama Railway"]>>,  \* 153: 埼玉高速鉄道線
     <<"{5317}{7DCF}{7DDA}", [color |-> <<"#", "0", "0", "8", "0", "C", "6">>, en |-> "Hokuso Line"]>>,  \* 154: 北総線
     <<"{6771}{8449}{9AD8}{901F}{7DDA}", [color |-> <<"#", "2", "F", "A", "8", "E", "0">>, en |-> "Toyo Rapid Railway"]>>,  \* 155: 東葉高速線
     <<"{65B0}{4EAC}{6210}{7DDA}", [color |-> <<"#", "E", "8", "5", "2", "9", "8">>, en |-> "Shin-Keisei Line"]>>,  \* 156: 新京成線
     <<"{6D41}{5C71}{7DDA}", [color |-> <<"#", "0", "0", "A", "6", "5", "0">>, en |-> "Nagareyama Line"]>>,  \* 157: 流山線
     <<"{8352}{5DDD}{7DDA}", [color |-> <<"#", "F", "F", "C", "2", "0", "E">>, en |-> "Tokyo Sakura Tram"]>>,  \* 158: 荒川線
     <<"{30C7}{30A3}{30BA}{30CB}{30FC}{30EA}{30BE}{30FC}{30C8}{30E9}{30A4}{30F3}", [color |-> <<"#", "E", "7", "3", "4", "8", "E">>, en |-> "Disney Resort Line"]>>,  \* 159: ディズニーリゾートライン
     <<"{4E0A}{91CE}{61F8}{5782}{7DDA}", [color |-> <<"#", "2", "2", "8", "B", "2", "2">>, en |-> "Ueno Zoo Monorail"]>>,  \* 160: 上野懸垂線
     <<"{3064}{304F}{3070}{30A8}{30AF}{30B9}{30D7}{30EC}{30B9}", [color |-> <<"#", "0", "0", "6", "6", "C", "C">>, en |-> "Tsukuba Express"]>>  \* 161: つくばエクスプレス
  >>

\* generateLineData.py: the items of the dict literal KANSAI_LINES, in source order
\* (lines 165-311). Characters outside ASCII are written {XXXX}, their code point;
\* a colour is the tuple of its characters.
KansaiLinesLiteral ==
  <<
     <<"JR{4EAC}{90FD}{7DDA}", [color |-> <<"#", "0", "0", "7", "2", "b", "c">>, en |-> "JR Kyoto Line"]>>,  \* 167: JR京都線
     <<"JR{795E}{6238}{7DDA}", [color |-> <<"#", "0", "0", "7", "2", "b", "c">>, en |-> "JR Kobe Line"]>>,  \* 168: JR神戸線
     <<"JR{6771}{897F}{7DDA}", [color |-> <<"#", "f", "f", "6", "9", "b", "4">>, en |-> "JR Tozai Line"]>>,  \* 169: JR東西線
     <<"{6771}{6D77}{9053}{672C}{7DDA}", [color |-> <<"#", "0", "0", "7", "2", "b", "c">>, en |-> "Tokaido Line"]>>,  \* 170: 東海道本線
     <<"{5927}{962A}{74B0}{72B6}{7DDA}", [color |-> <<"#", "e", "6", "0", "0", "1", "2">>, en |-> "Osaka Loop Line"]>>,  \* 171: 大阪環状線
     <<"{962A}{548C}{7DDA}", [color |-> <<"#", "f", "1", "5", "a", "2", "2">>, en |-> "Hanwa Line"]>>,  \* 172: 阪和線
     <<"{95A2}{897F}{672C}{7DDA}", [color |-> <<"#", "0", "0", "9", "9", "4", "4">>, en |-> "Kansai Line"]>>,  \* 173: 関西本線
     <<"{95A2}{897F}{7DDA}", [color |-> <<"#", "0", "0", "9", "9", "4", "4">>, en |-> "Kansai Line"]>>,  \* 174: 関西線
     <<"{5948}{826F}{7DDA}", [color |-> <<"#", "a", "5", "2", "a", "2", "a">>, en |-> "Nara Line"]>>,  \* 175: 奈良線
     <<"{5D6F}{5CE8}{91CE}{7DDA}", [color |-> <<"#", "8", "b", "4", "5", "1", "3">>, en |-> "Sagano Line"]>>,  \* 176: 嵯峨野線
     <<"{5C71}{9670}{672C}{7DDA}", [color |-> <<"#", "8", "b", "4", "5", "1", "3">>, en |-> "San'in Line"]>>,  \* 177: 山陰本線
     <<"{5C71}{9670}{7DDA}", [color |-> <<"#", "8", "b", "4", "5", "1", "3">>, en |-> "San'in Line"]>>,  \* 178: 山陰線
     <<"{6E56}{897F}{7DDA}", [color |-> <<"#", "0", "0", "a", "0", "e", "9">>, en |-> "Kosei Line"]>>,  \* 179: 湖西線
     <<"{5C71}{967D}{65B0}{5E79}{7DDA}", [color |-> <<"#", "0", "0", "7", "2", "b", "c">>, en |-> "Sanyo Shinkansen"]>>,  \* 180: 山陽新幹線
     <<"{5C71}{967D}{7DDA}", [color |-> <<"#", "0", "0", "7", "2", "b", "c">>, en |-> "Sanyo Line"]>>,  \* 181: 山陽線
     <<"{798F}{77E5}{5C71}{7DDA}", [color |-> <<"#", "f", "f", "d", "4", "0", "0">>, en |-> "Fukuchiyama Line"]>>,  \* 182: 福知山線
     <<"{7247}{753A}{7DDA}", [color |-> <<"#", "f", "f", "6", "9", "b", "4">>, en |-> "Katamachi Line"]>>,  \* 183: 片町線
     <<"{685C}{5CF6}{7DDA}", [color |-> <<"#", "e", "6", "0", "0", "1", "2">>, en |-> "Sakurajima Line"]>>,  \* 184: 桜島線
     <<"{304A}{304A}{3055}{304B}{6771}{7DDA}", [color |-> <<"#", "9", "a", "c", "d", "3", "2">>, en |-> "Osaka Higashi Line"]>>,  \* 185: おおさか東線
     <<"{4EAC}{962A}{672C}{7DDA}", [color |-> <<"#", "0", "0", "8", "0", "0", "0">>, en |-> "Keihan Main Line"]>>,  \* 188: 京阪本線
     <<"{4EAC}{962A}{9D28}{6771}{7DDA}", [color |-> <<"#", "0", "0", "8", "0", "0", "0">>, en |-> "Keihan Oto Line"]>>,  \* 189: 京阪鴨東線
     <<"{9D28}{6771}{7DDA}", [color |-> <<"#", "0", "0", "8", "0", "0", "0">>, en |-> "Keihan Oto Line"]>>,  \* 190: 鴨東線
     <<"{4EAC}{962A}{4E2D}{4E4B}{5CF6}{7DDA}", [color |-> <<"#", "0", "0", "8", "0", "0", "0">>, en |-> "Keihan Nakanoshima Line"]>>,  \* 191: 京阪中之島線
     <<"{4E2D}{4E4B}{5CF6}{7DDA}", [color |-> <<"#", "0", "0", "8", "0", "0", "0">>, en |-> "Keihan Nakanoshima Line"]>>,  \* 192: 中之島線
     <<"{4EAC}{962A}{5B87}{6CBB}{7DDA}", [color |-> <<"#", "0", "0", "8", "0", "0", "0">>, en |-> "Keihan Uji Line"]>>,  \* 193: 京阪宇治線
     <<"{5B87}{6CBB}{7DDA}", [color |-> <<"#", "0", "0", "8", "0", "0", "0">>, en |-> "Keihan Uji Line"]>>,  \* 194: 宇治線
     <<"{4EAC}{962A}{4EA4}{91CE}{7DDA}", [color |-> <<"#", "0", "0", "8", "0", "0", "0">>, en |-> "Keihan Katano Line"]>>,  \* 195: 京阪交野線
     <<"{4EA4}{91CE}{7DDA}", [color |-> <<"#", "0", "0", "8", "0", "0", "0">>, en |-> "Keihan Katano Line"]>>,  \* 196: 交野線
     <<"{4EAC}{962A}{4EAC}{6D25}{7DDA}", [color |-> <<"#", "0", "0", "8", "0", "0", "0">>, en |-> "Keihan Keishin Line"]>>,  \* 197: 京阪京津線
     <<"{4EAC}{6D25}{7DDA}", [color |-> <<"#", "0", "0", "8", "0", "0", "0">>, en |-> "Keihan Keishin Line"]>>,  \* 198: 京津線
     <<"{4EAC}{962A}{77F3}{5C71}{5742}{672C}{7DDA}", [color |-> <<"#", "0", "0", "8", "0", "0", "0">>, en |-> "Keihan Ishiyama-Sakamoto Line"]>>,  \* 199: 京阪石山坂本線
     <<"{77F3}{5C71}{5742}{672C}{7DDA}", [color |-> <<"#", "0", "0", "8", "0", "0", "0">>, en |-> "Keihan Ishiyama-Sakamoto Line"]>>,  \* 200: 石山坂本線
     <<"{962A}{6025}{4EAC}{90FD}{672C}{7DDA}", [color |-> <<"#", "8", "0", "0", "0", "0", "0">>, en |-> "Hankyu Kyoto Line"]>>,  \* 203: 阪急京都本線
     <<"{962A}{6025}{4EAC}{90FD}{7DDA}", [color |-> <<"#", "8", "0", "0", "0", "0", "0">>, en |-> "Hankyu Kyoto Line"]>>,  \* 204: 阪急京都線
     <<"{4EAC}{90FD}{7DDA}", [color |-> <<"#", "8", "0", "0", "0", "0", "0">>, en |-> "Hankyu Kyoto Line"]>>,  \* 205: 京都線
     <<"{962A}{6025}{795E}{6238}{672C}{7DDA}", [color |-> <<"#", "8", "0", "0", "0", "0", "0">>, en |-> "Hankyu Kobe Line"]>>,  \* 206: 阪急神戸本線
     <<"{962A}{6025}{795E}{6238}{7DDA}", [color |-> <<"#", "8", "0", "0", "0", "0", "0">>, en |-> "Hankyu Kobe Line"]>>,  \* 207: 阪急神戸線
     <<"{795E}{6238}{7DDA}", [color |-> <<"#", "8", "0", "0", "0", "0", "0">>, en |-> "Hankyu Kobe Line"]>>,  \* 208: 神戸線
     <<"{962A}{6025}{5B9D}{585A}{672C}{7DDA}", [color |-> <<"#", "8", "0", "0", "0", "0", "0">>, en |-> "Hankyu Takarazuka Line"]>>,  \* 209: 阪急宝塚本線
     <<"{962A}{6025}{5B9D}{585A}{7DDA}", [color |-> <<"#", "8", "0", "0", "0", "0", "0">>, en |-> "Hankyu Takarazuka Line"]>>,  \* 210: 阪急宝塚線
     <<"{5B9D}{585A}{7DDA}", [color |-> <<"#", "8", "0", "0", "0", "0", "0">>, en |-> "Hankyu Takarazuka Line"]>>,  \* 211: 宝塚線
     <<"{962A}{6025}{5343}{91CC}{7DDA}", [color |-> <<"#", "8", "0", "0", "0", "0", "0">>, en |-> "Hankyu Senri Line"]>>,  \* 212: 阪急千里線
     <<"{5343}{91CC}{7DDA}", [color |-> <<"#", "8", "0", "0", "0", "0", "0">>, en |-> "Hankyu Senri Line"]>>,  \* 213: 千里線
     <<"{962A}{6025}{5D50}{5C71}{7DDA}", [color |-> <<"#", "8", "0", "0", "0", "0", "0">>, en |-> "Hankyu Arashiyama Line"]>>,  \* 214: 阪急嵐山線
     <<"{5D50}{5C71}{7DDA}", [color |-> <<"#", "8", "0", "0", "0", "0", "0">>, en |-> "Hankyu Arashiyama Line"]>>,  \* 215: 嵐山線
     <<"{4ECA}{6D25}{7DDA}", [color |-> <<"#", "8", "0", "0", "0", "0", "0">>, en |-> "Hankyu Imazu Line"]>>,  \* 216: 今津線
     <<"{4F0A}{4E39}{7DDA}", [color |-> <<"#", "8", "0", "0", "0", "0", "0">>, en |-> "Hankyu Itami Line"]>>,  \* 217: 伊丹線
     <<"{7532}{967D}{7DDA}", [color |-> <<"#", "8", "0", "0", "0", "0", "0">>, en |-> "Hankyu Koyo Line"]>>,  \* 218: 甲陽線
     <<"{7B95}{9762}{7DDA}", [color |-> <<"#", "8", "0", "0", "0", "0", "0">>, en |-> "Hankyu Minoo Line"]>>,  \* 219: 箕面線
     <<"{795E}{6238}{9AD8}{901F}{7DDA}", [color |-> <<"#", "8", "0", "0", "0", "0", "0">>, en |-> "Kobe Kosoku Line"]>>,  \* 220: 神戸高速線
     <<"{8FD1}{9244}{4EAC}{90FD}{7DDA}", [color |-> <<"#", "e", "6", "0", "0", "1", "2">>, en |-> "Kintetsu Kyoto Line"]>>,  \* 223: 近鉄京都線
     <<"{8FD1}{9244}{5948}{826F}{7DDA}", [color |-> <<"#", "e", "6", "0", "0", "1", "2">>, en |-> "Kintetsu Nara Line"]>>,  \* 224: 近鉄奈良線
     <<"{8FD1}{9244}{5927}{962A}{7DDA}", [color |-> <<"#", "e", "6", "0", "0", "1", "2">>, en |-> "Kintetsu Osaka Line"]>>,  \* 225: 近鉄大阪線
     <<"{5927}{962A}{7DDA}", [color |-> <<"#", "e", "6", "0", "0", "1", "2">>, en |-> "Kintetsu Osaka Line"]>>,  \* 226: 大阪線
     <<"{8FD1}{9244}{5357}{5927}{962A}{7DDA}", [color |-> <<"#", "e", "6", "0", "0", "1", "2">>, en |-> "Kintetsu Minami-Osaka Line"]>>,  \* 227: 近鉄南大阪線
     <<"{5357}{5927}{962A}{7DDA}", [color |-> <<"#", "e", "6", "0", "0", "1", "2">>, en |-> "Kintetsu Minami-Osaka Line"]>>,  \* 228: 南大阪線
     <<"{8FD1}{9244}{96E3}{6CE2}{7DDA}", [color |-> <<"#", "e", "6", "0", "0", "1", "2">>, en |-> "Kintetsu Namba Line"]>>,  \* 229: 近鉄難波線
     <<"{96E3}{6CE2}{7DDA}", [color |-> <<"#", "e", "6", "0", "0", "1", "2">>, en |-> "Kintetsu Namba Line"]>>,  \* 230: 難波線
     <<"{6A7F}{539F}{7DDA}", [color |-> <<"#", "e", "6", "0", "0", "1", "2">>, en |-> "Kintetsu Kashihara Line"]>>,  \* 231: 橿原線
     <<"{5929}{7406}{7DDA}", [color |-> <<"#", "e", "6", "0", "0", "1", "2">>, en |-> "Kintetsu Tenri Line"]>>,  \* 232: 天理線
     <<"{751F}{99D2}{7DDA}", [color |-> <<"#", "e", "6", "0", "0", "1", "2">>, en |-> "Kintetsu Ikoma Line"]>>,  \* 233: 生駒線
     <<"{3051}{3044}{306F}{3093}{306A}{7DDA}", [color |-> <<"#", "e", "6", "0", "0", "1", "2">>, en |-> "Kintetsu Keihanna Line"]>>,  \* 234: けいはんな線
     <<"{5927}{962A}{5E02}{9AD8}{901F}{96FB}{6C17}{8ECC}{9053}{5FA1}{5802}{7B4B}{7DDA}", [color |-> <<"#", "e", "5", "1", "7", "1", "f">>, en |-> "Midosuji Line"]>>,  \* 237: 大阪市高速電気軌道御堂筋線
     <<"{5FA1}{5802}{7B4B}{7DDA}", [color |-> <<"#", "e", "5", "1", "7", "1", "f">>, en |-> "Midosuji Line"]>>,  \* 238: 御堂筋線
     <<"1{53F7}{7DDA}({5FA1}{5802}{7B4B}{7DDA})", [color |-> <<"#", "e", "5", "1", "7", "1", "f">>, en |-> "Midosuji Line"]>>,  \* 239: 1号線(御堂筋線)
     <<"{5927}{962A}{5E02}{9AD8}{901F}{96FB}{6C17}{8ECC}{9053}{8C37}{753A}{7DDA}", [color |-> <<"#", "5", "2", "2", "8", "8", "6">>, en |-> "Tanimachi Line"]>>,  \* 240: 大阪市高速電気軌道谷町線
     <<"{8C37}{753A}{7DDA}", [color |-> <<"#", "5", "2", "2", "8", "8", "6">>, en |-> "Tanimachi Line"]>>,  \* 241: 谷町線
     <<"2{53F7}{7DDA}({8C37}{753A}{7DDA})", [color |-> <<"#", "5", "2", "2", "8", "8", "6">>, en |-> "Tanimachi Line"]>>,  \* 242: 2号線(谷町線)
     <<"{5927}{962A}{5E02}{9AD8}{901F}{96FB}{6C17}{8ECC}{9053}{56DB}{3064}{6A4B}{7DDA}", [color |-> <<"#", "0", "0", "7", "8", "b", "a">>, en |-> "Yotsubashi Line"]>>,  \* 243: 大阪市高速電気軌道四つ橋線
     <<"{56DB}{3064}{6A4B}{7DDA}", [color |-> <<"#", "0", "0", "7", "8", "b", "a">>, en |-> "Yotsubashi Line"]>>,  \* 244: 四つ橋線
     <<"3{53F7}{7DDA}({56DB}{3064}{6A4B}{7DDA})", [color |-> <<"#", "0", "0", "7", "8", "b", "a">>, en |-> "Yotsubashi Line"]>>,  \* 245: 3号線(四つ橋線)
     <<"{5927}{962A}{5E02}{9AD8}{901F}{96FB}{6C17}{8ECC}{9053}{4E2D}{592E}{7DDA}", [color |-> <<"#", "0", "1", "9", "a", "6", "6">>, en |-> "Chuo Line"]>>,  \* 246: 大阪市高速電気軌道中央線
     <<"{4E2D}{592E}{7DDA}", [color |-> <<"#", "0", "1", "9", "a", "6", "6">>, en |-> "Chuo Line"]>>,  \* 247: 中央線
     <<"4{53F7}{7DDA}({4E2D}{592E}{7DDA})", [color |-> <<"#", "0", "1", "9", "a", "6", "6">>, en |-> "Chuo Line"]>>,  \* 248: 4号線(中央線)
     <<"{5927}{962A}{5E02}{9AD8}{901F}{96FB}{6C17}{8ECC}{9053}{5343}{65E5}{524D}{7DDA}", [color |-> <<"#", "e", "4", "4", "d", "9", "3">>, en |-> "Sennichimae Line"]>>,  \* 249: 大阪市高速電気軌道千日前線
     <<"{5343}{65E5}{524D}{7DDA}", [color |-> <<"#", "e", "4", "4", "d", "9", "3">>, en |-> "Sennichimae Line"]>>,  \* 250: 千日前線
     <<"5{53F7}{7DDA}({5343}{65E5}{524D}{7DDA})", [color |-> <<"#", "e", "4", "4", "d", "9", "3">>, en |-> "Sennichimae Line"]>>,  \* 251: 5号線(千日前線)
     <<"{5927}{962A}{5E02}{9AD8}{901F}{96FB}{6C17}{8ECC}{9053}{583A}{7B4B}{7DDA}", [color |-> <<"#", "8", "1", "4", "7", "2", "1">>, en |-> "Sakaisuji Line"]>>,  \* 252: 大阪市高速電気軌道堺筋線
     <<"{583A}{7B4B}{7DDA}", [color |-> <<"#", "8", "1", "4", "7", "2", "1">>, en |-> "Sakaisuji Line"]>>,  \* 253: 堺筋線
     <<"6{53F7}{7DDA}({583A}{7B4B}{7DDA})", [color |-> <<"#", "8", "1", "4", "7", "2", "1">>, en |-> "Sakaisuji Line"]>>,  \* 254: 6号線(堺筋線)
     <<"{5927}{962A}{5E02}{9AD8}{901F}{96FB}{6C17}{8ECC}{9053}{9577}{5800}{9DB4}{898B}{7DD1}{5730}{7DDA}", [color |-> <<"#", "a", "9", "c", "c", "5", "1">>, en |-> "Nagahori Tsurumi-ryokuchi Line"]>>,  \* 255: 大阪市高速電気軌道長堀鶴見緑地線
     <<"{9577}{5800}{9DB4}{898B}{7DD1}{5730}{7DDA}", [color |-> <<"#", "a", "9", "c", "c", "5", "1">>, en |-> "Nagahori Tsurumi-ryokuchi Line"]>>,  \* 256: 長堀鶴見緑地線
     <<"7{53F7}{7DDA}({9577}{5800}{9DB4}{898B}{7DD1}{5730}{7DDA})", [color |-> <<"#", "a", "9", "c", "c", "5", "1">>, en |-> "Nagahori Tsurumi-ryokuchi Line"]>>,  \* 257: 7号線(長堀鶴見緑地線)
     <<"{5927}{962A}{5E02}{9AD8}{901F}{96FB}{6C17}{8ECC}{9053}{4ECA}{91CC}{7B4B}{7DDA}", [color |-> <<"#", "e", "e", "7", "b", "1", "a">>, en |-> "Imazatosuji Line"]>>,  \* 258: 大阪市高速電気軌道今里筋線
     <<"{4ECA}{91CC}{7B4B}{7DDA}", [color |-> <<"#", "e", "e", "7", "b", "1", "a">>, en |-> "Imazatosuji Line"]>>,  \* 259: 今里筋線
     <<"8{53F7}{7DDA}{FF08}{4ECA}{91CC}{7B4B}{7DDA}{FF09}", [color |-> <<"#", "e", "e", "7", "b", "1", "a">>, en |-> "Imazatosuji Line"]>>,  \* 260: 8号線（今里筋線）
     <<"{5357}{6E2F}{30DD}{30FC}{30C8}{30BF}{30A6}{30F3}{7DDA}", [color |-> <<"#", "0", "0", "b", "2", "b", "2">>, en |-> "New Tram"]>>,  \* 261: 南港ポートタウン線
     <<"{4EAC}{90FD}{5E02}{55B6}{5730}{4E0B}{9244}{70CF}{4E38}{7DDA}", [color |-> <<"#", "3", "1", "a", "3", "5", "4">>, en |-> "Karasuma Line"]>>,  \* 264: 京都市営地下鉄烏丸線
     <<"{70CF}{4E38}{7DDA}", [color |-> <<"#", "3", "1", "a", "3", "5", "4">>, en |-> "Karasuma Line"]>>,  \* 265: 烏丸線
     <<"{4EAC}{90FD}{5E02}{55B6}{5730}{4E0B}{9244}{6771}{897F}{7DDA}", [color |-> <<"#", "e", "8", "5", "2", "9", "8">>, en |-> "Tozai Line"]>>,  \* 266: 京都市営地下鉄東西線
     <<"{897F}{795E}{7DDA}", [color |-> <<"#", "0", "0", "8", "0", "0", "0">>, en |-> "Seishin Line"]>>,  \* 269: 西神線
     <<"{897F}{795E}{5EF6}{4F38}{7DDA}", [color |-> <<"#", "0", "0", "8", "0", "0", "0">>, en |-> "Seishin Extension Line"]>>,  \* 270: 西神延伸線
     <<"{6D77}{5CB8}{7DDA}", [color |-> <<"#", "0", "0", "7", "8", "b", "a">>, en |-> "Kaigan Line"]>>,  \* 271: 海岸線
     <<"{5317}{795E}{7DDA}", [color |-> <<"#", "0", "0", "8", "0", "0", "0">>, en |-> "Hokushin Line"]>>,  \* 272: 北神線
     <<"{962A}{795E}{672C}{7DDA}", [color |-> <<"#", "f", "1", "5", "a", "2", "2">>, en |-> "Hanshin Main Line"]>>,  \* 275: 阪神本線
     <<"{962A}{795E}{306A}{3093}{3070}{7DDA}", [color |-> <<"#", "f", "1", "5", "a", "2", "2">>, en |-> "Hanshin Namba Line"]>>,  \* 276: 阪神なんば線
     <<"{6B66}{5EAB}{5DDD}{7DDA}", [color |-> <<"#", "f", "1", "5", "a", "2", "2">>, en |-> "Hanshin Mukogawa Line"]>>,  \* 277: 武庫川線
     <<"{5357}{6D77}{672C}{7DDA}", [color |-> <<"#", "0", "0", "7", "2", "b", "c">>, en |-> "Nankai Main Line"]>>,  \* 280: 南海本線
     <<"{5357}{6D77}{9AD8}{91CE}{7DDA}", [color |-> <<"#", "0", "0", "7", "2", "b", "c">>, en |-> "Nankai Koya Line"]>>,  \* 281: 南海高野線
     <<"{9AD8}{91CE}{7DDA}", [color |-> <<"#", "0", "0", "7", "2", "b", "c">>, en |-> "Nankai Koya Line"]>>,  \* 282: 高野線
     <<"{6CC9}{5317}{9AD8}{901F}{9244}{9053}{7DDA}", [color |-> <<"#", "0", "0", "7", "2", "b", "c">>, en |-> "Semboku Rapid Railway"]>>,  \* 283: 泉北高速鉄道線
     <<"{53E1}{5C71}{672C}{7DDA}", [color |-> <<"#", "0", "0", "8", "0", "0", "0">>, en |-> "Eizan Main Line"]>>,  \* 286: 叡山本線
     <<"{978D}{99AC}{7DDA}", [color |-> <<"#", "0", "0", "8", "0", "0", "0">>, en |-> "Eizan Kurama Line"]>>,  \* 287: 鞍馬線
     <<"{5D50}{5C71}{672C}{7DDA}", [color |-> <<"#", "8", "0", "0", "0", "8", "0">>, en |-> "Randen Arashiyama Line"]>>,  \* 290: 嵐山本線
     <<"{5317}{91CE}{7DDA}", [color |-> <<"#", "8", "0", "0", "0", "8", "0">>, en |-> "Randen Kitano Line"]>>,  \* 291: 北野線
     <<"{5927}{962A}{30E2}{30CE}{30EC}{30FC}{30EB}{7DDA}", [color |-> <<"#", "0", "0", "a", "0", "e", "9">>, en |-> "Osaka Monorail"]>>,  \* 294: 大阪モノレール線
     <<"{30DD}{30FC}{30C8}{30A2}{30A4}{30E9}{30F3}{30C9}{7DDA}", [color |-> <<"#", "0", "0", "b", "2", "b", "2">>, en |-> "Port Liner"]>>,  \* 297: ポートアイランド線
     <<"{516D}{7532}{30A2}{30A4}{30E9}{30F3}{30C9}{7DDA}", [color |-> <<"#", "0", "0", "b", "2", "b", "2">>, en |-> "Rokko Liner"]>>,  \* 298: 六甲アイランド線
     <<"{5999}{898B}{7DDA}", [color |-> <<"#", "f", "1", "5", "a", "2", "2">>, en |-> "Nose Myoken Line"]>>,  \* 301: 妙見線
     <<"{65E5}{751F}{7DDA}", [color |-> <<"#", "f", "1", "5", "a", "2", "2">>, en |-> "Nose Nissei Line"]>>,  \* 302: 日生線
     <<"{6709}{99AC}{7DDA}", [color |-> <<"#", "f", "1", "5", "a", "2", "2">>, en |-> "Shintetsu Arima Line"]>>,  \* 305: 有馬線
     <<"{7C9F}{751F}{7DDA}", [color |-> <<"#", "f", "1", "5", "a", "2", "2">>, en |-> "Shintetsu Ao Line"]>>,  \* 306: 粟生線
     <<"{962A}{583A}{7DDA}", [color |-> <<"#", "0", "0", "8", "0", "0", "0">>, en |-> "Hankai Line"]>>,  \* 309: 阪堺線
     <<"{4E0A}{753A}{7DDA}", [color |-> <<"#", "0", "0", "8", "0", "0", "0">>, en |-> "Hankai Uemachi Line"]>>  \* 310: 上町線
  >>

\* parseWikipediaColors.py: the items of the dict literal WIKIPEDIA_COLORS, in source order
\* (lines 12-136). Characters outside ASCII are written {XXXX}, their code point;
\* a colour is the tuple of its characters.
WikipediaColorsLiteral ==
  <<
     <<"CA", <<<<"F", "6", "8", "6", "1", "F">>, "T{014D}kaid{014D} Main Line", "JR Central">>>>,  \* 14: CA
     <<"CB", <<<<"4", "7", "7", "5", "4", "3">>, "Gotemba Line", "JR Central">>>>,  \* 15: CB
     <<"CC", <<<<"7", "7", "3", "C", "9", "7">>, "Minobu Line", "JR Central">>>>,  \* 16: CC
     <<"CD", <<<<"6", "F", "A", "3", "D", "7">>, "Iida Line", "JR Central">>>>,  \* 17: CD
     <<"CE", <<<<"8", "C", "5", "A", "3", "8">>, "Taketoyo Line", "JR Central">>>>,  \* 18: CE
     <<"CF", <<<<"3", "2", "7", "1", "9", "8">>, "Ch{016B}{014D} Main Line", "JR Central">>>>,  \* 19: CF
     <<"CG", <<<<"9", "E", "1", "8", "1", "3">>, "Takayama Main Line", "JR Central">>>>,  \* 20: CG
     <<"CI", <<<<"C", "8", "B", "A", "4", "5">>, "Taita Line", "JR Central">>>>,  \* 21: CI
     <<"CJ", <<<<"1", "6", "B", "6", "8", "F">>, "Kansai Main Line", "JR Central">>>>,  \* 22: CJ
     <<"CO", <<<<"0", "0", "7", "B", "B", "E">>, "Ch{016B}{014D} Main Line", "JR East">>>>,  \* 25: CO
     <<"JA", <<<<"2", "E", "8", "B", "5", "7">>, "Saiky{014D} Line", "JR East">>>>,  \* 26: JA
     <<"JB", <<<<"F", "F", "D", "7", "0", "0">>, "Ch{016B}{014D}{2013}S{014D}bu Line", "JR East">>>>,  \* 27: JB
     <<"JC", <<<<"F", "F", "4", "5", "0", "0">>, "Ch{016B}{014D} Line (Rapid)", "JR East">>>>,  \* 28: JC
     <<"JE", <<<<"D", "C", "1", "4", "3", "C">>, "Keiy{014D} Line", "JR East">>>>,  \* 29: JE
     <<"JH", <<<<"9", "A", "C", "D", "3", "2">>, "Yokohama Line", "JR East">>>>,  \* 30: JH
     <<"JI", <<<<"F", "F", "D", "7", "0", "0">>, "Tsurumi Line", "JR East">>>>,  \* 31: JI
     <<"JJ", <<<<"3", "C", "B", "3", "7", "1">>, "J{014D}ban Line", "JR East">>>>,  \* 32: JJ
     <<"JK", <<<<"0", "0", "B", "F", "F", "F">>, "Keihin-T{014D}hoku Line", "JR East">>>>,  \* 33: JK
     <<"JL", <<<<"8", "0", "8", "0", "8", "0">>, "J{014D}ban Line (local)", "JR East">>>>,  \* 34: JL
     <<"JM", <<<<"F", "F", "4", "5", "0", "0">>, "Musashino Line", "JR East">>>>,  \* 35: JM
     <<"JN", <<<<"F", "F", "D", "7", "0", "0">>, "Nambu Line", "JR East">>>>,  \* 36: JN
     <<"JO", <<<<"0", "0", "7", "0", "B", "9">>, "Yokosuka Line", "JR East">>>>,  \* 37: JO
     <<"JS", <<<<"F", "F", "0", "0", "0", "0">>, "Sh{014D}nan-Shinjuku Line", "JR East">>>>,  \* 38: JS
     <<"JT", <<<<"F", "F", "A", "5", "0", "0">>, "T{014D}kaid{014D} Main Line", "JR East">>>>,  \* 39: JT
     <<"JU", <<<<"F", "F", "A", "5", "0", "0">>, "Utsunomiya Line", "JR East">>>>,  \* 40: JU
     <<"JY", <<<<"9", "A", "C", "D", "3", "2">>, "Yamanote Line", "JR East">>>>,  \* 41: JY
     <<"SE", <<<<"0", "0", "B", "3", "E", "6">>, "Shin'etsu Main Line", "JR East">>>>,  \* 42: SE
     <<"SN_JR", <<<<"F", "1", "5", "A", "2", "2">>, "Shinonoi Line", "JR East">>>>,  \* 43: SN_JR
     <<"HA", <<<<"E", "0", "9", "C", "4", "2">>, "Sapporo{2014}Asahikawa{2014}Abashiri", "JR Hokkaido">>>>,  \* 46: HA
     <<"HAP", <<<<"0", "0", "9", "8", "D", "8">>, "Chitose Line (Airport)", "JR Hokkaido">>>>,  \* 47: HAP
     <<"HB", <<<<"E", "B", "8", "4", "8", "D">>, "Hakodate Line", "JR Hokkaido">>>>,  \* 48: HB
     <<"HH", <<<<"4", "8", "7", "C", "B", "C">>, "Hokkaido Line", "JR Hokkaido">>>>,  \* 49: HH
     <<"HT", <<<<"9", "9", "4", "A", "9", "5">>, "Hokkaido Line", "JR Hokkaido">>>>,  \* 50: HT
     <<"HW", <<<<"8", "A", "4", "8", "3", "B">>, "S{014D}ya Main Line", "JR Hokkaido">>>>,  \* 51: HW
     <<"SB", <<<<"2", "a", "6", "4", "8", "2">>, "Tokushima Line", "JR Shikoku">>>>,  \* 54: SB
     <<"SD", <<<<"E", "2", "5", "8", "8", "5">>, "Dosan Line", "JR Shikoku">>>>,  \* 55: SD
     <<"SM", <<<<"0", "0", "B", "5", "A", "7">>, "Mugi Line", "JR Shikoku">>>>,  \* 56: SM
     <<"SU", <<<<"F", "9", "A", "A", "0", "0">>, "Uchiko Line", "JR Shikoku">>>>,  \* 57: SU
     <<"KO", <<<<"E", "3", "3", "7", "9", "F">>, "Kei{014D} Line", "Keio">>>>,  \* 60: KO
     <<"IN", <<<<"1", "A", "4", "0", "7", "B">>, "Inokashira Line", "Keio">>>>,  \* 61: IN
     <<"KS", <<<<"0", "0", "5", "A", "A", "A">>, "Keisei Main Line", "Keisei">>>>,  \* 64: KS
     <<"OE", <<<<"2", "6", "8", "3", "C", "E">>, "Enoshima Line", "Odakyu">>>>,  \* 67: OE
     <<"OH", <<<<"2", "6", "8", "3", "C", "E">>, "Odawara Line", "Odakyu">>>>,  \* 68: OH
     <<"OT", <<<<"2", "6", "8", "3", "C", "E">>, "Tama Line", "Odakyu">>>>,  \* 69: OT
     <<"MC", <<<<"0", "1", "9", "A", "6", "6">>, "Ch{016B}{014D} Line", "Osaka Metro">>>>,  \* 72: MC
     <<"MI", <<<<"E", "E", "7", "B", "1", "A">>, "Imazatosuji Line", "Osaka Metro">>>>,  \* 73: MI
     <<"MK", <<<<"8", "1", "4", "7", "2", "1">>, "Sakaisuji Line", "Osaka Metro">>>>,  \* 74: MK
     <<"MM", <<<<"E", "5", "1", "7", "1", "F">>, "Mid{014D}suji Line", "Osaka Metro">>>>,  \* 75: MM
     <<"MN", <<<<"A", "9", "C", "C", "5", "1">>, "Nagahori Tsurumi-ryokuchi Line", "Osaka Metro">>>>,  \* 76: MN
     <<"MP", <<<<"0", "0", "A", "0", "D", "E">>, "Nank{014D} Port Town Line", "Osaka Metro">>>>,  \* 77: MP
     <<"MS", <<<<"E", "4", "4", "D", "9", "3">>, "Sennichimae Line", "Osaka Metro">>>>,  \* 78: MS
     <<"MT", <<<<"5", "2", "2", "8", "8", "6">>, "Tanimachi Line", "Osaka Metro">>>>,  \* 79: MT
     <<"MY", <<<<"0", "0", "7", "8", "B", "E">>, "Yotsubashi Line", "Osaka Metro">>>>,  \* 80: MY
     <<"SI", <<<<"E", "D", "7", "7", "2", "D">>, "Ikebukuro Line", "Seibu">>>>,  \* 83: SI
     <<"SK", <<<<"3", "4", "B", "5", "5", "9">>, "Kokubunji Line", "Seibu">>>>,  \* 84: SK
     <<"SS", <<<<"0", "0", "A", "6", "B", "F">>, "Shinjuku Line", "Seibu">>>>,  \* 85: SS
     <<"ST", <<<<"F", "A", "A", "A", "2", "7">>, "Tamako Line", "Seibu">>>>,  \* 86: ST
     <<"SW", <<<<"E", "D", "7", "7", "2", "D">>, "Tamagawa Line", "Seibu">>>>,  \* 87: SW
     <<"SY", <<<<"E", "F", "4", "7", "3", "D">>, "Yamaguchi Line", "Seibu">>>>,  \* 88: SY
     <<"TD", <<<<"0", "0", "B", "F", "F", "F">>, "Noda Line", "Tobu">>>>,  \* 91: TD
     <<"TI", <<<<"D", "C", "1", "4", "3", "C">>, "Isesaki Line", "Tobu">>>>,  \* 92: TI
     <<"TJ", <<<<"0", "0", "4", "0", "9", "8">>, "T{014D}j{014D} Line", "Tobu">>>>,  \* 93: TJ
     <<"TN", <<<<"F", "F", "A", "5", "0", "0">>, "Nikk{014D} Line", "Tobu">>>>,  \* 94: TN
     <<"TS", <<<<"0", "0", "5", "A", "A", "A">>, "Skytree Line", "Tobu">>>>,  \* 95: TS
     <<"A", <<<<"E", "C", "6", "E", "6", "5">>, "Asakusa Line", "Toei">>>>,  \* 98: A
     <<"E", <<<<"C", "E", "0", "4", "5", "B">>, "{014C}edo Line", "Toei">>>>,  \* 99: E
     <<"I", <<<<"0", "0", "6", "C", "B", "6">>, "Mita Line", "Toei">>>>,  \* 100: I
     <<"S", <<<<"B", "0", "C", "1", "2", "4">>, "Shinjuku Line", "Toei">>>>,  \* 101: S
     <<"C", <<<<"0", "0", "B", "B", "8", "5">>, "Chiyoda Line", "Tokyo Metro">>>>,  \* 104: C
     <<"F", <<<<"9", "C", "5", "E", "3", "1">>, "Fukutoshin Line", "Tokyo Metro">>>>,  \* 105: F
     <<"G", <<<<"F", "F", "9", "5", "0", "0">>, "Ginza Line", "Tokyo Metro">>>>,  \* 106: G
     <<"H", <<<<"B", "5", "B", "5", "A", "C">>, "Hibiya Line", "Tokyo Metro">>>>,  \* 107: H
     <<"M", <<<<"F", "6", "2", "E", "3", "6">>, "Marunouchi Line", "Tokyo Metro">>>>,  \* 108: M
     <<"N", <<<<"0", "0", "A", "C", "9", "B">>, "Namboku Line", "Tokyo Metro">>>>,  \* 109: N
     <<"T", <<<<"0", "0", "9", "B", "B", "F">>, "Tozai Line", "Tokyo Metro">>>>,  \* 110: T
     <<"Y", <<<<"C", "1", "A", "4", "7", "0">>, "Y{016B}rakuch{014D} Line", "Tokyo Metro">>>>,  \* 111: Y
     <<"Z", <<<<"8", "F", "7", "6", "D", "6">>, "Hanz{014D}mon Line", "Tokyo Metro">>>>,  \* 112: Z
     <<"DT", <<<<"2", "0", "A", "2", "8", "8">>, "Den-en-Toshi Line", "Tokyu">>>>,  \* 115: DT
     <<"IK", <<<<"E", "E", "8", "6", "A", "7">>, "Ikegami Line", "Tokyu">>>>,  \* 116: IK
     <<"KD", <<<<"0", "0", "6", "8", "B", "7">>, "Kodomonokuni Line", "Tokyu">>>>,  \* 117: KD
     <<"MG", <<<<"0", "0", "9", "C", "D", "2">>, "Meguro Line", "Tokyu">>>>,  \* 118: MG
     <<"OM", <<<<"F", "1", "8", "C", "4", "3">>, "Oimachi Line", "Tokyu">>>>,  \* 119: OM
     <<"SG", <<<<"F", "C", "C", "7", "0", "D">>, "Setagaya Line", "Tokyu">>>>,  \* 120: SG
     <<"SH", <<<<"8", "9", "0", "d", "8", "4">>, "Shin-Yokohama Line", "Tokyu">>>>,  \* 121: SH
     <<"TM", <<<<"A", "E", "0", "3", "7", "8">>, "Tamagawa Line", "Tokyu">>>>,  \* 122: TM
     <<"TY", <<<<"D", "A", "0", "4", "4", "2">>, "Toyoko Line", "Tokyu">>>>,  \* 123: TY
     <<"HK", <<<<"3", "4", "B", "5", "8", "0">>, "Hankyu Railway", "Hankyu">>>>,  \* 126: HK
     <<"HS", <<<<"0", "0", "B", "F", "F", "F">>, "Hokus{014D} Line", "Hokuso">>>>,  \* 127: HS
     <<"KK", <<<<"3", "2", "C", "A", "E", "2">>, "Keikyu Line", "Keikyu">>>>,  \* 128: KK
     <<"SR", <<<<"3", "4", "5", "C", "A", "A">>, "Saitama Rapid Railway", "Saitama">>>>,  \* 129: SR
     <<"SL", <<<<"F", "F", "6", "9", "B", "4">>, "Shin-Keisei Line", "Shin-Keisei">>>>,  \* 130: SL
     <<"MO", <<<<"0", "0", "0", "0", "8", "0">>, "Tokyo Monorail", "Tokyo Monorail">>>>,  \* 131: MO
     <<"TR", <<<<"0", "A", "A", "A", "3", "C">>, "T{014D}y{014D} Rapid Railway", "Toyo Rapid">>>>,  \* 132: TR
     <<"U", <<<<"0", "0", "6", "5", "A", "6">>, "Yurikamome", "Yurikamome">>>>,  \* 133: U
     <<"WK", <<<<"6", "D", "0", "0", "2", "3">>, "Watarase Keikoku Line", "Watarase">>>>,  \* 134: WK
     <<"TX", <<<<"0", "0", "0", "0", "8", "4">>, "Tsukuba Express", "Tsukuba Express">>>>  \* 135: TX
  >>

\* parseWikipediaColors.py: the items of the dict literal JAPANESE_TO_WIKI, in source order
\* (lines 140-326). Characters outside ASCII are written {XXXX}, their code point;
\* a colour is the tuple of its characters.
JapaneseToWikiLiteral ==
  <<
     <<"{9280}{5EA7}{7DDA}", "G">>,  \* 142: 銀座線
     <<"1{53F7}{7DDA}{9280}{5EA7}{7DDA}", "G">>,  \* 143: 1号線銀座線
     <<"3{53F7}{7DDA}{9280}{5EA7}{7DDA}", "G">>,  \* 144: 3号線銀座線
     <<"3{53F7}{7DDA}", "G">>,  \* 145: 3号線
     <<"{65E5}{6BD4}{8C37}{7DDA}", "H">>,  \* 146: 日比谷線
     <<"2{53F7}{7DDA}{65E5}{6BD4}{8C37}{7DDA}", "H">>,  \* 147: 2号線日比谷線
     <<"{4E38}{30CE}{5185}{7DDA}", "M">>,  \* 148: 丸ノ内線
     <<"4{53F7}{7DDA}{4E38}{30CE}{5185}{7DDA}", "M">>,  \* 149: 4号線丸ノ内線
     <<"4{53F7}{7DDA}", "M">>,  \* 150: 4号線
     <<"4{53F7}{7DDA}{4E38}{30CE}{5185}{7DDA}{5206}{5C90}{7DDA}", "M">>,  \* 151: 4号線丸ノ内線分岐線
     <<"{6771}{897F}{7DDA}", "T">>,  \* 152: 東西線
     <<"5{53F7}{7DDA}{6771}{897F}{7DDA}", "T">>,  \* 153: 5号線東西線
     <<"{5343}{4EE3}{7530}{7DDA}", "C">>,  \* 154: 千代田線
     <<"9{53F7}{7DDA}{5343}{4EE3}{7530}{7DDA}", "C">>,  \* 155: 9号線千代田線
     <<"{6709}{697D}{753A}{7DDA}", "Y">>,  \* 156: 有楽町線
     <<"8{53F7}{7DDA}{6709}{697D}{753A}{7DDA}", "Y">>,  \* 157: 8号線有楽町線
     <<"{534A}{8535}{9580}{7DDA}", "Z">>,  \* 158: 半蔵門線
     <<"11{53F7}{7DDA}{534A}{8535}{9580}{7DDA}", "Z">>,  \* 159: 11号線半蔵門線
     <<"{5357}{5317}{7DDA}", "N">>,  \* 160: 南北線
     <<"7{53F7}{7DDA}{5357}{5317}{7DDA}", "N">>,  \* 161: 7号線南北線
     <<"{526F}{90FD}{5FC3}{7DDA}", "F">>,  \* 162: 副都心線
     <<"13{53F7}{7DDA}{526F}{90FD}{5FC3}{7DDA}", "F">>,  \* 163: 13号線副都心線
     <<"{6D45}{8349}{7DDA}", "A">>,  \* 166: 浅草線
     <<"1{53F7}{7DDA}{6D45}{8349}{7DDA}", "A">>,  \* 167: 1号線浅草線
     <<"{4E09}{7530}{7DDA}", "I">>,  \* 168: 三田線
     <<"6{53F7}{7DDA}{4E09}{7530}{7DDA}", "I">>,  \* 169: 6号線三田線
     <<"{65B0}{5BBF}{7DDA}", "S">>,  \* 170: 新宿線
     <<"10{53F7}{7DDA}{65B0}{5BBF}{7DDA}", "S">>,  \* 171: 10号線新宿線
     <<"{5927}{6C5F}{6238}{7DDA}", "E">>,  \* 172: 大江戸線
     <<"12{53F7}{7DDA}{5927}{6C5F}{6238}{7DDA}", "E">>,  \* 173: 12号線大江戸線
     <<"{5C71}{624B}{7DDA}", "JY">>,  \* 176: 山手線
     <<"{4E2D}{592E}{7DDA}", "JC">>,  \* 177: 中央線
     <<"{4E2D}{592E}{7DDA}{5FEB}{901F}", "JC">>,  \* 178: 中央線快速
     <<"{4E2D}{592E}{30FB}{7DCF}{6B66}{7DDA}", "JB">>,  \* 179: 中央・総武線
     <<"{7DCF}{6B66}{7DDA}", "JB">>,  \* 180: 総武線
     <<"{7DCF}{6B66}{672C}{7DDA}", "JB">>,  \* 181: 総武本線
     <<"{4EAC}{6D5C}{6771}{5317}{7DDA}", "JK">>,  \* 182: 京浜東北線
     <<"{6A2A}{9808}{8CC0}{7DDA}", "JO">>,  \* 183: 横須賀線
     <<"{57FC}{4EAC}{7DDA}", "JA">>,  \* 184: 埼京線
     <<"{8D64}{7FBD}{7DDA}{FF08}{57FC}{4EAC}{7DDA}{FF09}", "JA">>,  \* 185: 赤羽線（埼京線）
     <<"{6771}{5317}{7DDA}{FF08}{57FC}{4EAC}{7DDA}{FF09}", "JA">>,  \* 186: 東北線（埼京線）
     <<"{5E38}{78D0}{7DDA}", "JJ">>,  \* 187: 常磐線
     <<"{5E38}{78D0}{7DDA}{5FEB}{901F}", "JJ">>,  \* 188: 常磐線快速
     <<"{4EAC}{8449}{7DDA}", "JE">>,  \* 189: 京葉線
     <<"{6B66}{8535}{91CE}{7DDA}", "JM">>,  \* 190: 武蔵野線
     <<"{5357}{6B66}{7DDA}", "JN">>,  \* 191: 南武線
     <<"{6A2A}{6D5C}{7DDA}", "JH">>,  \* 192: 横浜線
     <<"{9DB4}{898B}{7DDA}", "JI">>,  \* 193: 鶴見線
     <<"{6771}{6D77}{9053}{7DDA}", "JT">>,  \* 194: 東海道線
     <<"{6771}{6A2A}{7DDA}", "TY">>,  \* 197: 東横線
     <<"{6771}{6025}{6771}{6A2A}{7DDA}", "TY">>,  \* 198: 東急東横線
     <<"{7530}{5712}{90FD}{5E02}{7DDA}", "DT">>,  \* 199: 田園都市線
     <<"{6771}{6025}{7530}{5712}{90FD}{5E02}{7DDA}", "DT">>,  \* 200: 東急田園都市線
     <<"{76EE}{9ED2}{7DDA}", "MG">>,  \* 201: 目黒線
     <<"{6771}{6025}{76EE}{9ED2}{7DDA}", "MG">>,  \* 202: 東急目黒線
     <<"{5927}{4E95}{753A}{7DDA}", "OM">>,  \* 203: 大井町線
     <<"{6771}{6025}{5927}{4E95}{753A}{7DDA}", "OM">>,  \* 204: 東急大井町線
     <<"{6C60}{4E0A}{7DDA}", "IK">>,  \* 205: 池上線
     <<"{6771}{6025}{6C60}{4E0A}{7DDA}", "IK">>,  \* 206: 東急池上線
     <<"{591A}{6469}{5DDD}{7DDA}", "TM">>,  \* 207: 多摩川線
     <<"{6771}{6025}{591A}{6469}{5DDD}{7DDA}", "TM">>,  \* 208: 東急多摩川線
     <<"{4E16}{7530}{8C37}{7DDA}", "SG">>,  \* 209: 世田谷線
     <<"{3053}{3069}{3082}{306E}{56FD}{7DDA}", "KD">>,  \* 210: こどもの国線
     <<"{5C0F}{7530}{6025}{7DDA}", "OH">>,  \* 213: 小田急線
     <<"{5C0F}{7530}{539F}{7DDA}", "OH">>,  \* 214: 小田原線
     <<"{5C0F}{7530}{6025}{5C0F}{7530}{539F}{7DDA}", "OH">>,  \* 215: 小田急小田原線
     <<"{6C5F}{30CE}{5CF6}{7DDA}", "OE">>,  \* 216: 江ノ島線
     <<"{5C0F}{7530}{6025}{6C5F}{30CE}{5CF6}{7DDA}", "OE">>,  \* 217: 小田急江ノ島線
     <<"{591A}{6469}{7DDA}", "OT">>,  \* 218: 多摩線
     <<"{5C0F}{7530}{6025}{591A}{6469}{7DDA}", "OT">>,  \* 219: 小田急多摩線
     <<"{4EAC}{738B}{7DDA}", "KO">>,  \* 222: 京王線
     <<"{4E95}{306E}{982D}{7DDA}", "IN">>,  \* 223: 井の頭線
     <<"{4EAC}{738B}{4E95}{306E}{982D}{7DDA}", "IN">>,  \* 224: 京王井の頭線
     <<"{76F8}{6A21}{539F}{7DDA}", "KO">>,  \* 225: 相模原線
     <<"{52D5}{7269}{5712}{7DDA}", "KO">>,  \* 226: 動物園線
     <<"{7AF6}{99AC}{5834}{7DDA}", "KO">>,  \* 227: 競馬場線
     <<"{6C60}{888B}{7DDA}", "SI">>,  \* 230: 池袋線
     <<"{897F}{6B66}{6C60}{888B}{7DDA}", "SI">>,  \* 231: 西武池袋線
     <<"{897F}{6B66}{65B0}{5BBF}{7DDA}", "SS">>,  \* 232: 西武新宿線
     <<"{62DD}{5CF6}{7DDA}", "SI">>,  \* 233: 拝島線
     <<"{591A}{6469}{6E56}{7DDA}", "ST">>,  \* 234: 多摩湖線
     <<"{56FD}{5206}{5BFA}{7DDA}", "SK">>,  \* 235: 国分寺線
     <<"{897F}{6B66}{5712}{7DDA}", "SI">>,  \* 236: 西武園線
     <<"{897F}{6B66}{6709}{697D}{753A}{7DDA}", "SI">>,  \* 237: 西武有楽町線
     <<"{72ED}{5C71}{7DDA}", "SI">>,  \* 238: 狭山線
     <<"{8C4A}{5CF6}{7DDA}", "SI">>,  \* 239: 豊島線
     <<"{5C71}{53E3}{7DDA}", "SY">>,  \* 240: 山口線
     <<"{6771}{4E0A}{672C}{7DDA}", "TJ">>,  \* 243: 東上本線
     <<"{6771}{6B66}{6771}{4E0A}{7DDA}", "TJ">>,  \* 244: 東武東上線
     <<"{4F0A}{52E2}{5D0E}{7DDA}", "TI">>,  \* 245: 伊勢崎線
     <<"{6771}{6B66}{4F0A}{52E2}{5D0E}{7DDA}", "TI">>,  \* 246: 東武伊勢崎線
     <<"{6771}{6B66}{30B9}{30AB}{30A4}{30C4}{30EA}{30FC}{30E9}{30A4}{30F3}", "TS">>,  \* 247: 東武スカイツリーライン
     <<"{4E80}{6238}{7DDA}", "TI">>,  \* 248: 亀戸線
     <<"{5927}{5E2B}{7DDA}", "TI">>,  \* 249: 大師線
     <<"{91CE}{7530}{7DDA}", "TD">>,  \* 250: 野田線
     <<"{672C}{7DDA}", "KS">>,  \* 253: 本線
     <<"{4EAC}{6210}{672C}{7DDA}", "KS">>,  \* 254: 京成本線
     <<"{62BC}{4E0A}{7DDA}", "KS">>,  \* 255: 押上線
     <<"{4EAC}{6210}{62BC}{4E0A}{7DDA}", "KS">>,  \* 256: 京成押上線
     <<"{91D1}{753A}{7DDA}", "KS">>,  \* 257: 金町線
     <<"{6210}{7530}{7A7A}{6E2F}{7DDA}", "KS">>,  \* 258: 成田空港線
     <<"{7A7A}{6E2F}{7DDA}", "KK">>,  \* 261: 空港線
     <<"{4EAC}{6025}{672C}{7DDA}", "KK">>,  \* 262: 京急本線
     <<"{4EAC}{6025}{7DDA}", "KK">>,  \* 263: 京急線
     <<"{308A}{3093}{304B}{3044}{7DDA}", "HS">>,  \* 266: りんかい線
     <<"{6771}{4EAC}{81E8}{6D77}{65B0}{4EA4}{901A}{81E8}{6D77}{7DDA}", "U">>,  \* 267: 東京臨海新交通臨海線
     <<"{3086}{308A}{304B}{3082}{3081}", "U">>,  \* 268: ゆりかもめ
     <<"{6771}{4EAC}{30E2}{30CE}{30EC}{30FC}{30EB}{7FBD}{7530}{7DDA}", "MO">>,  \* 269: 東京モノレール羽田線
     <<"{6771}{4EAC}{30E2}{30CE}{30EC}{30FC}{30EB}", "MO">>,  \* 270: 東京モノレール
     <<"{65E5}{66AE}{91CC}{30FB}{820E}{4EBA}{7DDA}", "SL">>,  \* 271: 日暮里・舎人線
     <<"{65E5}{66AE}{91CC}{30FB}{820E}{4EBA}{30E9}{30A4}{30CA}{30FC}", "SL">>,  \* 272: 日暮里・舎人ライナー
     <<"{57FC}{7389}{9AD8}{901F}{9244}{9053}{7DDA}", "SR">>,  \* 273: 埼玉高速鉄道線
     <<"{5317}{7DCF}{7DDA}", "HS">>,  \* 274: 北総線
     <<"{6771}{8449}{9AD8}{901F}{7DDA}", "TR">>,  \* 275: 東葉高速線
     <<"{65B0}{4EAC}{6210}{7DDA}", "SL">>,  \* 276: 新京成線
     <<"{3064}{304F}{3070}{30A8}{30AF}{30B9}{30D7}{30EC}{30B9}", "TX">>,  \* 277: つくばエクスプレス
     <<"{5E38}{78D0}{65B0}{7DDA}", "TX">>,  \* 278: 常磐新線
     <<"{5FA1}{5802}{7B4B}{7DDA}", "MM">>,  \* 281: 御堂筋線
     <<"{5927}{962A}{5E02}{9AD8}{901F}{96FB}{6C17}{8ECC}{9053}{5FA1}{5802}{7B4B}{7DDA}", "MM">>,  \* 282: 大阪市高速電気軌道御堂筋線
     <<"1{53F7}{7DDA}({5FA1}{5802}{7B4B}{7DDA})", "MM">>,  \* 283: 1号線(御堂筋線)
     <<"{8C37}{753A}{7DDA}", "MT">>,  \* 284: 谷町線
     <<"{5927}{962A}{5E02}{9AD8}{901F}{96FB}{6C17}{8ECC}{9053}{8C37}{753A}{7DDA}", "MT">>,  \* 285: 大阪市高速電気軌道谷町線
     <<"2{53F7}{7DDA}({8C37}{753A}{7DDA})", "MT">>,  \* 286: 2号線(谷町線)
     <<"{56DB}{3064}{6A4B}{7DDA}", "MY">>,  \* 287: 四つ橋線
     <<"{5927}{962A}{5E02}{9AD8}{901F}{96FB}{6C17}{8ECC}{9053}{56DB}{3064}{6A4B}{7DDA}", "MY">>,  \* 288: 大阪市高速電気軌道四つ橋線
     <<"3{53F7}{7DDA}({56DB}{3064}{6A4B}{7DDA})", "MY">>,  \* 289: 3号線(四つ橋線)
     <<"{4E2D}{592E}{7DDA}", "MC">>,  \* 290: 中央線
     <<"{5927}{962A}{5E02}{9AD8}{901F}{96FB}{6C17}{8ECC}{9053}{4E2D}{592E}{7DDA}", "MC">>,  \* 291: 大阪市高速電気軌道中央線
     <<"4{53F7}{7DDA}({4E2D}{592E}{7DDA})", "MC">>,  \* 292: 4号線(中央線)
     <<"{5343}{65E5}{524D}{7DDA}", "MS">>,  \* 293: 千日前線
     <<"{5927}{962A}{5E02}{9AD8}{901F}{96FB}{6C17}{8ECC}{9053}{5343}{65E5}{524D}{7DDA}", "MS">>,  \* 294: 大阪市高速電気軌道千日前線
     <<"5{53F7}{7DDA}({5343}{65E5}{524D}{7DDA})", "MS">>,  \* 295: 5号線(千日前線)
     <<"{583A}{7B4B}{7DDA}", "MK">>,  \* 296: 堺筋線
     <<"{5927}{962A}{5E02}{9AD8}{901F}{96FB}{6C17}{8ECC}{9053}{583A}{7B4B}{7DDA}", "MK">>,  \* 297: 大阪市高速電気軌道堺筋線
     <<"6{53F7}{7DDA}({583A}{7B4B}{7DDA})", "MK">>,  \* 298: 6号線(堺筋線)
     <<"{9577}{5800}{9DB4}{898B}{7DD1}{5730}{7DDA}", "MN">>,  \* 299: 長堀鶴見緑地線
     <<"{5927}{962A}{5E02}{9AD8}{901F}{96FB}{6C17}{8ECC}{9053}{9577}{5800}{9DB4}{898B}{7DD1}{5730}{7DDA}", "MN">>,  \* 300: 大阪市高速電気軌道長堀鶴見緑地線
     <<"7{53F7}{7DDA}({9577}{5800}{9DB4}{898B}{7DD1}{5730}{7DDA})", "MN">>,  \* 301: 7号線(長堀鶴見緑地線)
     <<"{4ECA}{91CC}{7B4B}{7DDA}", "MI">>,  \* 302: 今里筋線
     <<"{5927}{962A}{5E02}{9AD8}{901F}{96FB}{6C17}{8ECC}{9053}{4ECA}{91CC}{7B4B}{7DDA}", "MI">>,  \* 303: 大阪市高速電気軌道今里筋線
     <<"8{53F7}{7DDA}{FF08}{4ECA}{91CC}{7B4B}{7DDA}{FF09}", "MI">>,  \* 304: 8号線（今里筋線）
     <<"{5357}{6E2F}{30DD}{30FC}{30C8}{30BF}{30A6}{30F3}{7DDA}", "MP">>,  \* 305: 南港ポートタウン線
     <<"{962A}{6025}{4EAC}{90FD}{672C}{7DDA}", "HK">>,  \* 308: 阪急京都本線
     <<"{962A}{6025}{4EAC}{90FD}{7DDA}", "HK">>,  \* 309: 阪急京都線
     <<"{4EAC}{90FD}{7DDA}", "HK">>,  \* 310: 京都線
     <<"{962A}{6025}{795E}{6238}{672C}{7DDA}", "HK">>,  \* 311: 阪急神戸本線
     <<"{962A}{6025}{795E}{6238}{7DDA}", "HK">>,  \* 312: 阪急神戸線
     <<"{795E}{6238}{7DDA}", "HK">>,  \* 313: 神戸線
     <<"{962A}{6025}{5B9D}{585A}{672C}{7DDA}", "HK">>,  \* 314: 阪急宝塚本線
     <<"{962A}{6025}{5B9D}{585A}{7DDA}", "HK">>,  \* 315: 阪急宝塚線
     <<"{5B9D}{585A}{7DDA}", "HK">>,  \* 316: 宝塚線
     <<"{962A}{6025}{5343}{91CC}{7DDA}", "HK">>,  \* 317: 阪急千里線
     <<"{5343}{91CC}{7DDA}", "HK">>,  \* 318: 千里線
     <<"{962A}{6025}{5D50}{5C71}{7DDA}", "HK">>,  \* 319: 阪急嵐山線
     <<"{5D50}{5C71}{7DDA}", "HK">>,  \* 320: 嵐山線
     <<"{4ECA}{6D25}{7DDA}", "HK">>,  \* 321: 今津線
     <<"{4F0A}{4E39}{7DDA}", "HK">>,  \* 322: 伊丹線
     <<"{7532}{967D}{7DDA}", "HK">>,  \* 323: 甲陽線
     <<"{7B95}{9762}{7DDA}", "HK">>,  \* 324: 箕面線
     <<"{795E}{6238}{9AD8}{901F}{7DDA}", "HK">>  \* 325: 神戸高速線
  >>

\* parseWikipediaColors.py: the items of the dict literal ADDITIONAL_COLORS, in source order
\* (lines 329-435). Characters outside ASCII are written {XXXX}, their code point;
\* a colour is the tuple of its characters.
AdditionalColorsLiteral ==
  <<
     <<"JR{4EAC}{90FD}{7DDA}", <<"#", "0", "0", "7", "2", "b", "c">>>>,  \* 331: JR京都線
     <<"JR{795E}{6238}{7DDA}", <<"#", "0", "0", "7", "2", "b", "c">>>>,  \* 332: JR神戸線
     <<"JR{6771}{897F}{7DDA}", <<"#", "f", "f", "6", "9", "b", "4">>>>,  \* 333: JR東西線
     <<"{6771}{6D77}{9053}{672C}{7DDA}", <<"#", "0", "0", "7", "2", "b", "c">>>>,  \* 334: 東海道本線
     <<"{5927}{962A}{74B0}{72B6}{7DDA}", <<"#", "e", "6", "0", "0", "1", "2">>>>,  \* 335: 大阪環状線
     <<"{962A}{548C}{7DDA}", <<"#", "f", "1", "5", "a", "2", "2">>>>,  \* 336: 阪和線
     <<"{95A2}{897F}{672C}{7DDA}", <<"#", "0", "0", "9", "9", "4", "4">>>>,  \* 337: 関西本線
     <<"{95A2}{897F}{7DDA}", <<"#", "0", "0", "9", "9", "4", "4">>>>,  \* 338: 関西線
     <<"{5948}{826F}{7DDA}", <<"#", "a", "5", "2", "a", "2", "a">>>>,  \* 339: 奈良線
     <<"{5D6F}{5CE8}{91CE}{7DDA}", <<"#", "8", "b", "4", "5", "1", "3">>>>,  \* 340: 嵯峨野線
     <<"{5C71}{9670}{672C}{7DDA}", <<"#", "8", "b", "4", "5", "1", "3">>>>,  \* 341: 山陰本線
     <<"{5C71}{9670}{7DDA}", <<"#", "8", "b", "4", "5", "1", "3">>>>,  \* 342: 山陰線
     <<"{6E56}{897F}{7DDA}", <<"#", "0", "0", "a", "0", "e", "9">>>>,  \* 343: 湖西線
     <<"{5C71}{967D}{65B0}{5E79}{7DDA}", <<"#", "0", "0", "7", "2", "b", "c">>>>,  \* 344: 山陽新幹線
     <<"{5C71}{967D}{7DDA}", <<"#", "0", "0", "7", "2", "b", "c">>>>,  \* 345: 山陽線
     <<"{798F}{77E5}{5C71}{7DDA}", <<"#", "f", "f", "d", "4", "0", "0">>>>,  \* 346: 福知山線
     <<"{7247}{753A}{7DDA}", <<"#", "f", "f", "6", "9", "b", "4">>>>,  \* 347: 片町線
     <<"{685C}{5CF6}{7DDA}", <<"#", "e", "6", "0", "0", "1", "2">>>>,  \* 348: 桜島線
     <<"{304A}{304A}{3055}{304B}{6771}{7DDA}", <<"#", "9", "a", "c", "d", "3", "2">>>>,  \* 349: おおさか東線
     <<"{6771}{6D77}{9053}{65B0}{5E79}{7DDA}", <<"#", "0", "0", "7", "2", "b", "c">>>>,  \* 350: 東海道新幹線
     <<"{6771}{5317}{65B0}{5E79}{7DDA}", <<"#", "0", "0", "b", "2", "6", "1">>>>,  \* 351: 東北新幹線
     <<"{4EAC}{962A}{672C}{7DDA}", <<"#", "0", "0", "8", "0", "0", "0">>>>,  \* 354: 京阪本線
     <<"{4EAC}{962A}{9D28}{6771}{7DDA}", <<"#", "0", "0", "8", "0", "0", "0">>>>,  \* 355: 京阪鴨東線
     <<"{9D28}{6771}{7DDA}", <<"#", "0", "0", "8", "0", "0", "0">>>>,  \* 356: 鴨東線
     <<"{4EAC}{962A}{4E2D}{4E4B}{5CF6}{7DDA}", <<"#", "0", "0", "8", "0", "0", "0">>>>,  \* 357: 京阪中之島線
     <<"{4E2D}{4E4B}{5CF6}{7DDA}", <<"#", "0", "0", "8", "0", "0", "0">>>>,  \* 358: 中之島線
     <<"{4EAC}{962A}{5B87}{6CBB}{7DDA}", <<"#", "0", "0", "8", "0", "0", "0">>>>,  \* 359: 京阪宇治線
     <<"{5B87}{6CBB}{7DDA}", <<"#", "0", "0", "8", "0", "0", "0">>>>,  \* 360: 宇治線
     <<"{4EAC}{962A}{4EA4}{91CE}{7DDA}", <<"#", "0", "0", "8", "0", "0", "0">>>>,  \* 361: 京阪交野線
     <<"{4EA4}{91CE}{7DDA}", <<"#", "0", "0", "8", "0", "0", "0">>>>,  \* 362: 交野線
     <<"{4EAC}{962A}{4EAC}{6D25}{7DDA}", <<"#", "0", "0", "8", "0", "0", "0">>>>,  \* 363: 京阪京津線
     <<"{4EAC}{6D25}{7DDA}", <<"#", "0", "0", "8", "0", "0", "0">>>>,  \* 364: 京津線
     <<"{4EAC}{962A}{77F3}{5C71}{5742}{672C}{7DDA}", <<"#", "0", "0", "8", "0", "0", "0">>>>,  \* 365: 京阪石山坂本線
     <<"{77F3}{5C71}{5742}{672C}{7DDA}", <<"#", "0", "0", "8", "0", "0", "0">>>>,  \* 366: 石山坂本線
     <<"{8FD1}{9244}{4EAC}{90FD}{7DDA}", <<"#", "e", "6", "0", "0", "1", "2">>>>,  \* 369: 近鉄京都線
     <<"{8FD1}{9244}{5948}{826F}{7DDA}", <<"#", "e", "6", "0", "0", "1", "2">>>>,  \* 370: 近鉄奈良線
     <<"{8FD1}{9244}{5927}{962A}{7DDA}", <<"#", "e", "6", "0", "0", "1", "2">>>>,  \* 371: 近鉄大阪線
     <<"{5927}{962A}{7DDA}", <<"#", "e", "6", "0", "0", "1", "2">>>>,  \* 372: 大阪線
     <<"{8FD1}{9244}{5357}{5927}{962A}{7DDA}", <<"#", "e", "6", "0", "0", "1", "2">>>>,  \* 373: 近鉄南大阪線
     <<"{5357}{5927}{962A}{7DDA}", <<"#", "e", "6", "0", "0", "1", "2">>>>,  \* 374: 南大阪線
     <<"{8FD1}{9244}{96E3}{6CE2}{7DDA}", <<"#", "e", "6", "0", "0", "1", "2">>>>,  \* 375: 近鉄難波線
     <<"{96E3}{6CE2}{7DDA}", <<"#", "e", "6", "0", "0", "1", "2">>>>,  \* 376: 難波線
     <<"{6A7F}{539F}{7DDA}", <<"#", "e", "6", "0", "0", "1", "2">>>>,  \* 377: 橿原線
     <<"{5929}{7406}{7DDA}", <<"#", "e", "6", "0", "0", "1", "2">>>>,  \* 378: 天理線
     <<"{751F}{99D2}{7DDA}", <<"#", "e", "6", "0", "0", "1", "2">>>>,  \* 379: 生駒線
     <<"{3051}{3044}{306F}{3093}{306A}{7DDA}", <<"#", "e", "6", "0", "0", "1", "2">>>>,  \* 380: けいはんな線
     <<"{4EAC}{90FD}{5E02}{55B6}{5730}{4E0B}{9244}{70CF}{4E38}{7DDA}", <<"#", "3", "1", "a", "3", "5", "4">>>>,  \* 383: 京都市営地下鉄烏丸線
     <<"{70CF}{4E38}{7DDA}", <<"#", "3", "1", "a", "3", "5", "4">>>>,  \* 384: 烏丸線
     <<"{4EAC}{90FD}{5E02}{55B6}{5730}{4E0B}{9244}{6771}{897F}{7DDA}", <<"#", "e", "8", "5", "2", "9", "8">>>>,  \* 385: 京都市営地下鉄東西線
     <<"{897F}{795E}{7DDA}", <<"#", "0", "0", "8", "0", "0", "0">>>>,  \* 388: 西神線
     <<"{897F}{795E}{5EF6}{4F38}{7DDA}", <<"#", "0", "0", "8", "0", "0", "0">>>>,  \* 389: 西神延伸線
     <<"{6D77}{5CB8}{7DDA}", <<"#", "0", "0", "7", "8", "b", "a">>>>,  \* 390: 海岸線
     <<"{5317}{795E}{7DDA}", <<"#", "0", "0", "8", "0", "0", "0">>>>,  \* 391: 北神線
     <<"{962A}{795E}{672C}{7DDA}", <<"#", "f", "1", "5", "a", "2", "2">>>>,  \* 394: 阪神本線
     <<"{962A}{795E}{306A}{3093}{3070}{7DDA}", <<"#", "f", "1", "5", "a", "2", "2">>>>,  \* 395: 阪神なんば線
     <<"{6B66}{5EAB}{5DDD}{7DDA}", <<"#", "f", "1", "5", "a", "2", "2">>>>,  \* 396: 武庫川線
     <<"{5357}{6D77}{672C}{7DDA}", <<"#", "0", "0", "7", "2", "b", "c">>>>,  \* 399: 南海本線
     <<"{5357}{6D77}{9AD8}{91CE}{7DDA}", <<"#", "0", "0", "7", "2", "b", "c">>>>,  \* 400: 南海高野線
     <<"{9AD8}{91CE}{7DDA}", <<"#", "0", "0", "7", "2", "b", "c">>>>,  \* 401: 高野線
     <<"{6CC9}{5317}{9AD8}{901F}{9244}{9053}{7DDA}", <<"#", "0", "0", "7", "2", "b", "c">>>>,  \* 402: 泉北高速鉄道線
     <<"{53E1}{5C71}{672C}{7DDA}", <<"#", "0", "0", "8", "0", "0", "0">>>>,  \* 405: 叡山本線
     <<"{978D}{99AC}{7DDA}", <<"#", "0", "0", "8", "0", "0", "0">>>>,  \* 406: 鞍馬線
     <<"{5D50}{5C71}{672C}{7DDA}", <<"#", "8", "0", "0", "0", "8", "0">>>>,  \* 409: 嵐山本線
     <<"{5317}{91CE}{7DDA}", <<"#", "8", "0", "0", "0", "8", "0">>>>,  \* 410: 北野線
     <<"{5927}{962A}{30E2}{30CE}{30EC}{30FC}{30EB}{7DDA}", <<"#", "0", "0", "a", "0", "e", "9">>>>,  \* 413: 大阪モノレール線
     <<"{591A}{6469}{90FD}{5E02}{30E2}{30CE}{30EC}{30FC}{30EB}{7DDA}", <<"#", "f", "3", "9", "8", "0", "0">>>>,  \* 414: 多摩都市モノレール線
     <<"{591A}{6469}{30E2}{30CE}{30EC}{30FC}{30EB}", <<"#", "f", "3", "9", "8", "0", "0">>>>,  \* 415: 多摩モノレール
     <<"{30DD}{30FC}{30C8}{30A2}{30A4}{30E9}{30F3}{30C9}{7DDA}", <<"#", "0", "0", "b", "2", "b", "2">>>>,  \* 418: ポートアイランド線
     <<"{516D}{7532}{30A2}{30A4}{30E9}{30F3}{30C9}{7DDA}", <<"#", "0", "0", "b", "2", "b", "2">>>>,  \* 419: 六甲アイランド線
     <<"{962A}{583A}{7DDA}", <<"#", "0", "0", "8", "0", "0", "0">>>>,  \* 422: 阪堺線
     <<"{4E0A}{753A}{7DDA}", <<"#", "0", "0", "8", "0", "0", "0">>>>,  \* 423: 上町線
     <<"{5999}{898B}{7DDA}", <<"#", "f", "1", "5", "a", "2", "2">>>>,  \* 424: 妙見線
     <<"{65E5}{751F}{7DDA}", <<"#", "f", "1", "5", "a", "2", "2">>>>,  \* 425: 日生線
     <<"{6709}{99AC}{7DDA}", <<"#", "f", "1", "5", "a", "2", "2">>>>,  \* 426: 有馬線
     <<"{7C9F}{751F}{7DDA}", <<"#", "f", "1", "5", "a", "2", "2">>>>,  \* 427: 粟生線
     <<"{6D41}{5C71}{7DDA}", <<"#", "0", "0", "a", "6", "5", "0">>>>,  \* 428: 流山線
     <<"{8352}{5DDD}{7DDA}", <<"#", "f", "f", "c", "2", "0", "e">>>>,  \* 429: 荒川線
     <<"{30C7}{30A3}{30BA}{30CB}{30FC}{30EA}{30BE}{30FC}{30C8}{30E9}{30A4}{30F3}", <<"#", "e", "7", "3", "4", "8", "e">>>>,  \* 430: ディズニーリゾートライン
     <<"{4E0A}{91CE}{61F8}{5782}{7DDA}", <<"#", "2", "2", "8", "b", "2", "2">>>>,  \* 431: 上野懸垂線
     <<"transfer", <<"#", "9", "9", "9", "9", "9", "9">>>>  \* 434: transfer
  >>

-----------------------------------------------------------------------------
(* The module constants as the scripts load them *)

TokyoLinesDict == DictLiteral(TokyoLinesLiteral)

KansaiLinesDict == DictLiteral(KansaiLinesLiteral)

WikipediaColorsDict == DictLiteral(WikipediaColorsLiteral)

JapaneseToWikiDict == DictLiteral(JapaneseToWikiLiteral)

AdditionalColorsDict == DictLiteral(AdditionalColorsLiteral)

-----------------------------------------------------------------------------
(* Tables other than the embedded ones, to run the scripts over *)

GenKeys == {"X", "Y", "transfer"}

GenAttrs ==
  { [color |-> <<"#", "1", "1", "1", "1", "1", "1">>, en |-> "A"],
    [color |-> <<"#", "2", "2", "2", "2", "2", "2">>, en |-> "B"] }

GenCodeRows ==
  { <<"G", << <<"F", "F", "9", "5", "0", "0">>, "Ginza Line", "Tokyo Metro">> >>,
    <<"M", << <<"F", "6", "2", "E", "3", "6">>, "Marunouchi Line", "Tokyo Metro">> >> }

GenCodes == {"G", "M"}

GenColors == { <<"#", "9", "9", "9", "9", "9", "9">> }

\* The dicts of at most MaxEntries items drawn from the set `items`
GenDicts(items) ==
  { DictLiteral(s) : s \in UNION {[1..n -> items] : n \in 0..MaxEntries} }

-----------------------------------------------------------------------------
(* Initial states: module load *)

InitRun ==
  /\ run = 1
  /\ error = "none"
  /\ all_lines = <<>>
  /\ output = <<>>
  /\ i = 0
  /\ line_data = <<>>
  /\ written = <<>>
  /\ stdout = <<>>

InitA ==
  /\ script = "A"
  /\ pc = "A_create"
  /\ \/ /\ TOKYO_LINES = TokyoLinesDict
        /\ KANSAI_LINES = KansaiLinesDict
     \/ /\ TOKYO_LINES \in GenDicts(GenKeys \X GenAttrs)
        /\ KANSAI_LINES \in GenDicts(GenKeys \X GenAttrs)
  /\ WIKIPEDIA_COLORS = <<>>
  /\ JAPANESE_TO_WIKI = <<>>
  /\ ADDITIONAL_COLORS = <<>>

InitB ==
  /\ script = "B"
  /\ pc = "B_call"
  /\ TOKYO_LINES = <<>>
  /\ KANSAI_LINES = <<>>
  /\ \/ /\ WIKIPEDIA_COLORS = WikipediaColorsDict
        /\ JAPANESE_TO_WIKI = JapaneseToWikiDict
        /\ ADDITIONAL_COLORS = AdditionalColorsDict
     \/ /\ WIKIPEDIA_COLORS \in GenDicts(GenCodeRows)
        /\ JAPANESE_TO_WIKI \in GenDicts(GenKeys \X GenCodes)
        /\ ADDITIONAL_COLORS \in GenDicts(GenKeys \X GenColors)

Init == InitRun /\ (InitA \/ InitB)

-----------------------------------------------------------------------------
(* Serialization and output *)

\* The items of an entry in the order its dict display lists them
EntryItems(e) ==
  SelectSeq(<<"color", "en", "operator", "source">>, LAMBDA f : f \in DOMAIN e)

\* json.dump(table, f, ensure_ascii=False, indent=2): the keys in the table's
\* order, each with its entry's fields in the entry's order
Serialize(table) ==
  [j \in DOMAIN table |->
     <<table[j][1],
       [n \in DOMAIN EntryItems(table[j][2]) |->
          <<EntryItems(table[j][2])[n], table[j][2][EntryItems(table[j][2])[n]]>>]>>]

\* WriteFile with the failure caught and passed over
WriteFileSwallowed(table, next) ==
  \/ /\ written' = Append(written, Serialize(table))
     /\ pc' = next
     /\ error' = error
  \/ /\ written' = written
     /\ pc' = next
     /\ error' = error

\* with open(output_path, 'w') ... json.dump(...): the file is written, or
\* opening or writing it raises OSError
WriteFile(table, next) ==
  \/ /\ written' = Append(written, Serialize(table))
     /\ pc' = next
     /\ error' = error
  \/ /\ written' = written
     /\ pc' = "raised"
     /\ error' = "OSError"

-----------------------------------------------------------------------------
(* Variant A: generateLineData.main *)

TransferEntry == [color |-> <<"#", "9", "9", "9", "9", "9", "9">>, en |-> "Transfer"]

A_Create ==
  /\ pc = "A_create"
  /\ all_lines' = <<>>
  /\ pc' = "A_update_kansai"
  /\ UNCHANGED <<script, run, error, tables, output, i, line_data, written, stdout>>

A_UpdateKansai ==
  /\ pc = "A_update_kansai"
  /\ all_lines' = Update(all_lines, KANSAI_LINES)
  /\ pc' = "A_update_tokyo"
  /\ UNCHANGED <<script, run, error, tables, output, i, line_data, written, stdout>>

A_UpdateTokyo ==
  /\ pc = "A_update_tokyo"
  /\ all_lines' = Update(all_lines, TOKYO_LINES)
  /\ pc' = "A_transfer"
  /\ UNCHANGED <<script, run, error, tables, output, i, line_data, written, stdout>>

\* A_AddTransfer on a table that is TOKYO_LINES itself, not a new dict
A_AddTransferAliased ==
  /\ pc = "A_transfer"
  /\ all_lines' = SetItem(all_lines, "transfer", TransferEntry)
  /\ TOKYO_LINES' = SetItem(TOKYO_LINES, "transfer", TransferEntry)
  /\ pc' = "A_write"
  /\ UNCHANGED <<script, run, error, KANSAI_LINES, WIKIPEDIA_COLORS, JAPANESE_TO_WIKI,
                 ADDITIONAL_COLORS, output, i, line_data, written, stdout>>

A_AddTransfer ==
  /\ pc = "A_transfer"
  /\ all_lines' = SetItem(all_lines, "transfer", TransferEntry)
  /\ pc' = "A_write"
  /\ UNCHANGED <<script, run, error, tables, output, i, line_data, written, stdout>>

A_Write ==
  /\ pc = "A_write"
  /\ WriteFile(all_lines, "A_print")
  /\ UNCHANGED <<script, run, tables, all_lines, output, i, line_data, stdout>>

A_Print ==
  /\ pc = "A_print"
  /\ stdout' = <<Len(all_lines)>>
  /\ pc' = "done"
  /\ UNCHANGED <<script, run, error, tables, all_lines, output, i, line_data, written>>

-----------------------------------------------------------------------------
(* Variant B: parseWikipediaColors.generate_line_data and main *)

\* WikipediaEntry with the hex value taken as the colour, no "#" before it
WikipediaEntryNoHash(row) ==
  [color |-> row[1], en |-> row[2], operator |-> row[3], source |-> "wikipedia"]

\* WikipediaEntry with the row unpacked in the wrong order
WikipediaEntrySwapped(row) ==
  [color |-> <<"#">> \o row[1], en |-> row[3], operator |-> row[2],
   source |-> "wikipedia"]

\* The entry built from a code-table row (hex_color, en_name, operator)
WikipediaEntry(row) ==
  [color |-> <<"#">> \o row[1], en |-> row[2], operator |-> row[3],
   source |-> "wikipedia"]

\* ManualEntry without its provenance tag
ManualEntryUntagged(ja_name, color) == [color |-> color, en |-> ja_name]

\* ManualEntry with the colour written where the name goes
ManualEntryColorAsName(ja_name, color) ==
  [color |-> color, en |-> color, source |-> "manual"]

\* The entry built for a key of ADDITIONAL_COLORS
ManualEntry(ja_name, color) ==
  [color |-> color, en |-> ja_name, source |-> "manual"]

\* CodeKnown with the membership test left out
CodeKnownUnchecked(wiki_code) == TRUE

\* if wiki_code in WIKIPEDIA_COLORS
CodeKnown(wiki_code) == Has(WIKIPEDIA_COLORS, wiki_code)

\* Absent as in an unconditional assignment: the secondary table overrides
AbsentOrNot(ja_name) == TRUE

\* Absent with the test inverted
AbsentInverted(ja_name) == Has(output, ja_name)

\* if ja_name not in output
Absent(ja_name) == ~Has(output, ja_name)

B_Call ==
  /\ pc = "B_call"
  /\ output' = <<>>
  /\ i' = 1
  /\ pc' = "B_resolve"
  /\ UNCHANGED <<script, run, error, tables, all_lines, line_data, written, stdout>>

\* One iteration of: for ja_name, wiki_code in JAPANESE_TO_WIKI.items()
B_Resolve ==
  /\ pc = "B_resolve"
  /\ i <= Len(JAPANESE_TO_WIKI)
  /\ LET ja_name == ItemAt(JAPANESE_TO_WIKI, i)[1]
         wiki_code == ItemAt(JAPANESE_TO_WIKI, i)[2]
     IN IF CodeKnown(wiki_code)
        THEN IF Has(WIKIPEDIA_COLORS, wiki_code)
             THEN /\ output' = SetItem(output, ja_name,
                                       WikipediaEntry(Get(WIKIPEDIA_COLORS, wiki_code)))
                  /\ i' = i + 1
                  /\ UNCHANGED <<pc, error>>
             ELSE \* WIKIPEDIA_COLORS[wiki_code] of a missing code
                  /\ pc' = "raised"
                  /\ error' = "KeyError"
                  /\ UNCHANGED <<output, i>>
        ELSE /\ i' = i + 1
             /\ UNCHANGED <<output, pc, error>>
  /\ UNCHANGED <<script, run, tables, all_lines, line_data, written, stdout>>

\* The first loop is exhausted; the second starts
B_ResolveEnd ==
  /\ pc = "B_resolve"
  /\ i > Len(JAPANESE_TO_WIKI)
  /\ i' = 1
  /\ pc' = "B_additional"
  /\ UNCHANGED <<script, run, error, tables, all_lines, output, line_data, written, stdout>>

\* One iteration of: for ja_name, color in ADDITIONAL_COLORS.items()
B_Additional ==
  /\ pc = "B_additional"
  /\ i <= Len(ADDITIONAL_COLORS)
  /\ LET ja_name == ItemAt(ADDITIONAL_COLORS, i)[1]
         color == ItemAt(ADDITIONAL_COLORS, i)[2]
     IN IF Absent(ja_name)
        THEN output' = SetItem(output, ja_name, ManualEntry(ja_name, color))
        ELSE output' = output
  /\ i' = i + 1
  /\ UNCHANGED <<script, run, pc, error, tables, all_lines, line_data, written, stdout>>

\* return output; line_data = generate_line_data()
B_Return ==
  /\ pc = "B_additional"
  /\ i > Len(ADDITIONAL_COLORS)
  /\ line_data' = output
  /\ pc' = "B_write"
  /\ UNCHANGED <<script, run, error, tables, all_lines, output, i, written, stdout>>

B_Write ==
  /\ pc = "B_write"
  /\ WriteFile(line_data, "B_print")
  /\ UNCHANGED <<script, run, tables, all_lines, output, i, line_data, stdout>>

\* CountSource with the filter left out
CountEvery(table, tag) == Len(table)

\* sum(1 for v in line_data.values() if v.get('source') == tag)
CountSource(table, tag) ==
  Cardinality({j \in DOMAIN table :
                 "source" \in DOMAIN table[j][2] /\ table[j][2].source = tag})

B_Print ==
  /\ pc = "B_print"
  /\ stdout' = <<Len(line_data), CountSource(line_data, "wikipedia"),
                 CountSource(line_data, "manual")>>
  /\ pc' = "done"
  /\ UNCHANGED <<script, run, error, tables, all_lines, output, i, line_data, written>>

-----------------------------------------------------------------------------
(* The script is run again: a new process over the same constants *)

Rerun ==
  /\ pc \in {"done", "raised"}
  /\ run < NumRuns
  /\ run' = run + 1
  /\ pc' = IF script = "A" THEN "A_create" ELSE "B_call"
  /\ error' = "none"
  /\ all_lines' = <<>>
  /\ output' = <<>>
  /\ i' = 0
  /\ line_data' = <<>>
  /\ stdout' = <<>>
  /\ UNCHANGED <<script, tables, written>>

Next ==
  \/ A_Create \/ A_UpdateKansai \/ A_UpdateTokyo \/ A_AddTransfer
  \/ A_Write \/ A_Print
  \/ B_Call \/ B_Resolve \/ B_ResolveEnd \/ B_Additional \/ B_Return
  \/ B_Write \/ B_Print
  \/ Rerun

Spec == Init /\ [][Next]_vars

-----------------------------------------------------------------------------
(* Properties *)

\* The table a script is building
Table == IF script = "A" THEN all_lines ELSE output

\* The script runs over the constants embedded in its source
EmbeddedA ==
  /\ script = "A"
  /\ KANSAI_LINES = KansaiLinesDict
  /\ TOKYO_LINES = TokyoLinesDict

EmbeddedB ==
  /\ script = "B"
  /\ WIKIPEDIA_COLORS = WikipediaColorsDict
  /\ JAPANESE_TO_WIKI = JapaneseToWikiDict
  /\ ADDITIONAL_COLORS = AdditionalColorsDict

\* main of Variant A has built all_lines, transfer included
BuiltA == script = "A" /\ pc \in {"A_write", "A_print", "done", "raised"}

\* generate_line_data has returned its table to main of Variant B
BuiltB ==
  /\ script = "B"
  /\ pc \in {"B_write", "B_print", "done"} \/ (pc = "raised" /\ error = "OSError")

\* The second loop of generate_line_data has started, or is over
PrimaryDone ==
  /\ script = "B"
  /\ pc \in {"B_additional", "B_write", "B_print", "done"}
     \/ (pc = "raised" /\ error = "OSError")

\* The keys of the code source whose code is in the code table
ResolvableKeys ==
  {k \in Keys(JAPANESE_TO_WIKI) : Has(WIKIPEDIA_COLORS, Get(JAPANESE_TO_WIKI, k))}

\* k is a key of the code source and its code is in the code table
IsResolvable(k) ==
  Has(JAPANESE_TO_WIKI, k) /\ Has(WIKIPEDIA_COLORS, Get(JAPANESE_TO_WIKI, k))

\* The code-table row of a resolvable key
RowOf(k) == Get(WIKIPEDIA_COLORS, Get(JAPANESE_TO_WIKI, k))

HexDigits ==
  {"0", "1", "2", "3", "4", "5", "6", "7", "8", "9",
   "A", "B", "C", "D", "E", "F", "a", "b", "c", "d", "e", "f"}

\* ^#[0-9A-Fa-f]{6}$
IsHexColor(c) ==
  /\ Len(c) = 7
  /\ c[1] = "#"
  /\ \A n \in 2..7 : c[n] \in HexDigits

IsTransfer(table) ==
  /\ Has(table, "transfer")
  /\ Get(table, "transfer").color = <<"#", "9", "9", "9", "9", "9", "9">>
  /\ Get(table, "transfer").en = "Transfer"

\* C1: once either script has built its output table, the table has the key
\* "transfer" with color "#999999" and en "Transfer", whatever the source
\* tables contain.  Variant B does not: its transfer entry is the manual entry
\* of ADDITIONAL_COLORS, with en "transfer", and is missing when the table
\* does not list it.
C1_TransferAlways ==
  /\ BuiltA => IsTransfer(all_lines)
  /\ BuiltB => IsTransfer(line_data)

\* C2: Variant A applies Kansai first and Tokyo second, and a key of both
\* tables has the whole record of Tokyo: after the first update the table is
\* Kansai's, after the second every common key has Tokyo's record, and so it
\* stays (the key "transfer" until the transfer entry is set over it).
C2_OverridePolicy ==
  /\ (script = "A" /\ pc = "A_update_tokyo") => all_lines = KANSAI_LINES
  /\ (script = "A" /\ pc = "A_transfer") =>
        \A k \in Keys(KANSAI_LINES) \cap Keys(TOKYO_LINES) :
           Has(all_lines, k) /\ Get(all_lines, k) = Get(TOKYO_LINES, k)
  /\ BuiltA =>
        \A k \in (Keys(KANSAI_LINES) \cap Keys(TOKYO_LINES)) \ {"transfer"} :
           Has(all_lines, k) /\ Get(all_lines, k) = Get(TOKYO_LINES, k)

\* A run of the shipped Variant A has ended, and a key of both tables has
\* different records in them
C2_Witness ==
  /\ EmbeddedA
  /\ pc = "done"
  /\ \E k \in Keys(KANSAI_LINES) \cap Keys(TOKYO_LINES) :
        /\ Get(KANSAI_LINES, k) # Get(TOKYO_LINES, k)
        /\ Get(all_lines, k) = Get(TOKYO_LINES, k)

C4_CodeResolution ==
  (script = "B" /\ pc = "B_resolve") =>
     \A j \in 1..(i - 1) :
        LET k == JAPANESE_TO_WIKI[j][1]
            code == JAPANESE_TO_WIKI[j][2]
        IN Has(WIKIPEDIA_COLORS, code) =>
             /\ Has(output, k)
             /\ Get(output, k).color = <<"#">> \o Get(WIKIPEDIA_COLORS, code)[1]
             /\ Get(output, k).en = Get(WIKIPEDIA_COLORS, code)[2]
             /\ Get(output, k).operator = Get(WIKIPEDIA_COLORS, code)[3]
             /\ Get(output, k).source = "wikipedia"
             /\ DOMAIN Get(output, k) = {"color", "en", "operator", "source"}

\* The first loop of the shipped Variant B has passed every item of
\* JAPANESE_TO_WIKI and resolved them
C4_Witness ==
  /\ EmbeddedB
  /\ pc = "B_resolve"
  /\ i > Len(JAPANESE_TO_WIKI)
  /\ Len(output) = Len(JAPANESE_TO_WIKI)

\* The entries the first loop builds from the items of the code source whose
\* code is in the code table, the other items taken away
ResolutionOfKnown(items) ==
  LET known == SelectSeq(items, LAMBDA it : Has(WIKIPEDIA_COLORS, it[2]))
  IN [n \in DOMAIN known |->
        <<known[n][1],
          [color |-> <<"#">> \o Get(WIKIPEDIA_COLORS, known[n][2])[1],
           en |-> Get(WIKIPEDIA_COLORS, known[n][2])[2],
           operator |-> Get(WIKIPEDIA_COLORS, known[n][2])[3],
           source |-> "wikipedia"]>>]

\* C5: a key of the code source whose code is not in the code table gets no
\* entry from the first loop, no KeyError is raised, and the table is what
\* resolving the other items alone gives.
C5_UnresolvableDropped ==
  /\ error # "KeyError"
  /\ (script = "B" /\ pc = "B_resolve") =>
        /\ \A j \in 1..(i - 1) :
              ~Has(WIKIPEDIA_COLORS, JAPANESE_TO_WIKI[j][2]) =>
                 ~Has(output, JAPANESE_TO_WIKI[j][1])
        /\ output = ResolutionOfKnown(SubSeq(JAPANESE_TO_WIKI, 1, i - 1))

\* The first loop is over; it passed a key whose code is unknown and resolved
\* another key
C5_Witness ==
  /\ script = "B"
  /\ pc = "B_resolve"
  /\ i > Len(JAPANESE_TO_WIKI)
  /\ \E k \in Keys(JAPANESE_TO_WIKI) : k \notin ResolvableKeys /\ ~Has(output, k)
  /\ \E k \in ResolvableKeys : Has(output, k)

\* C6: the keys of the built table are the keys of the source tables: in
\* Variant A those of KANSAI_LINES and TOKYO_LINES and "transfer", in Variant B
\* those of JAPANESE_TO_WIKI whose code is in the code table and those of
\* ADDITIONAL_COLORS.
C6_Completeness ==
  /\ BuiltA =>
        Keys(all_lines) = Keys(KANSAI_LINES) \cup Keys(TOKYO_LINES) \cup {"transfer"}
  /\ BuiltB =>
        Keys(line_data) = ResolvableKeys \cup Keys(ADDITIONAL_COLORS)

\* A run of Variant B has ended over tables with a resolvable key, a key
\* whose code is unknown and a key that only ADDITIONAL_COLORS lists
C6_Witness ==
  /\ script = "B"
  /\ pc = "done"
  /\ ResolvableKeys # {}
  /\ Keys(JAPANESE_TO_WIKI) \ ResolvableKeys # {}
  /\ Keys(ADDITIONAL_COLORS) \ Keys(JAPANESE_TO_WIKI) # {}

\* C7: over the embedded constants every entry of the table of either script,
\* at every point of its construction and when built, has a colour that is
\* "#" and six hexadecimal digits.
C7_ColorFormat ==
  /\ EmbeddedA => \A j \in DOMAIN all_lines : IsHexColor(all_lines[j][2].color)
  /\ EmbeddedB =>
        /\ \A j \in DOMAIN output : IsHexColor(output[j][2].color)
        /\ \A j \in DOMAIN line_data : IsHexColor(line_data[j][2].color)

\* The shipped Variant B has built its table, with code-resolved and manual
\* entries
C7_Witness ==
  /\ EmbeddedB
  /\ pc = "done"
  /\ \E j \in DOMAIN line_data : line_data[j][2].source = "wikipedia"
  /\ \E j \in DOMAIN line_data : line_data[j][2].source = "manual"

CompletesTable == pc' \in {"A_write", "B_write"} /\ pc' # pc

\* The step is an iteration of the fill-gap loop on the key "transfer"
FillGapOnTransfer ==
  /\ pc = "B_additional"
  /\ i <= Len(ADDITIONAL_COLORS)
  /\ i' = i + 1
  /\ ADDITIONAL_COLORS[i][1] = "transfer"

\* C9: in each script the step that completes the table leaves "transfer" set
\* to the fixed literal, over whatever the sources gave, and no iteration of
\* the insert-if-absent loop decides the "transfer" entry.  Variant B has no
\* such step: "transfer" is a key of ADDITIONAL_COLORS like the others.
C9_TransferInjection ==
  [][ /\ CompletesTable => Has(Table', "transfer") /\ Get(Table', "transfer") = TransferEntry
      /\ ~FillGapOnTransfer ]_vars

\* C10: every entry of the table generate_line_data returns has color, en and
\* source, source is "wikipedia" or "manual", and the entry has an operator
\* exactly when it is tagged "wikipedia".
C10_SchemaB ==
  BuiltB =>
     \A j \in DOMAIN line_data :
        LET e == line_data[j][2]
        IN /\ {"color", "en", "source"} \subseteq DOMAIN e
           /\ DOMAIN e \subseteq {"color", "en", "operator", "source"}
           /\ e.source \in {"wikipedia", "manual"}
           /\ e.source = "wikipedia" <=> "operator" \in DOMAIN e

\* generate_line_data has returned a table with an entry of each tag
C10_Witness ==
  /\ BuiltB
  /\ pc = "B_write"
  /\ \E j \in DOMAIN line_data : line_data[j][2].source = "wikipedia"
  /\ \E j \in DOMAIN line_data : line_data[j][2].source = "manual"

\* The last table written to the output file
LastWritten == written[Len(written)]

\* The entries of a serialized table that carry the provenance tag
TaggedIn(ser, tag) ==
  Cardinality({j \in DOMAIN ser :
                 \E n \in DOMAIN ser[j][2] :
                    ser[j][2][n][1] = "source" /\ ser[j][2][n][2] = tag})

\* C11: when a run has printed its summary, the total it printed is the
\* number of keys of the table it wrote; in Variant B the Wikipedia and manual
\* counts are the numbers of written entries with each tag and sum to the total.
C11_SummaryCounts ==
  pc = "done" =>
     /\ Len(written) > 0
     /\ stdout[1] = Len(LastWritten)
     /\ script = "A" => Len(stdout) = 1
     /\ script = "B" =>
           /\ Len(stdout) = 3
           /\ stdout[2] = TaggedIn(LastWritten, "wikipedia")
           /\ stdout[3] = TaggedIn(LastWritten, "manual")
           /\ stdout[2] + stdout[3] = stdout[1]

\* A run of Variant B has printed a summary with entries of both tags
C11_Witness ==
  /\ script = "B"
  /\ pc = "done"
  /\ stdout[2] > 0
  /\ stdout[3] > 0

\* The keys of a table in its order
KeySeq(d) == [j \in DOMAIN d |-> d[j][1]]

\* The keys in the order of their first insertion: Variant A
InsertionOrderA ==
  KeySeq(KANSAI_LINES)
  \o SelectSeq(KeySeq(TOKYO_LINES), LAMBDA k : ~Has(KANSAI_LINES, k))
  \o (IF Has(KANSAI_LINES, "transfer") \/ Has(TOKYO_LINES, "transfer")
      THEN <<>> ELSE <<"transfer">>)

\* The keys in the order of their first insertion: Variant B
InsertionOrderB ==
  SelectSeq(KeySeq(JAPANESE_TO_WIKI), LAMBDA k : IsResolvable(k))
  \o SelectSeq(KeySeq(ADDITIONAL_COLORS), LAMBDA k : ~IsResolvable(k))

\* C12: the keys of the built table, and of the file written from it, are in
\* the order of their first insertion, the sources taken in their fixed order;
\* a key that a later source overrides stays where it was first inserted; in
\* Variant A "transfer" is last (no table of the script lists it).
C12_InsertionOrder ==
  /\ BuiltA =>
        /\ KeySeq(all_lines) = InsertionOrderA
        /\ (~Has(KANSAI_LINES, "transfer") /\ ~Has(TOKYO_LINES, "transfer")) =>
              all_lines[Len(all_lines)][1] = "transfer"
        /\ EmbeddedA => all_lines[Len(all_lines)][1] = "transfer"
  /\ BuiltB => KeySeq(line_data) = InsertionOrderB
  /\ pc \in {"A_print", "B_print", "done"} =>
        /\ Len(written) > 0
        /\ KeySeq(LastWritten) = (IF script = "A" THEN InsertionOrderA ELSE InsertionOrderB)

\* A run of the shipped Variant A has ended; the key of both tables, which
\* Tokyo overrides, is where Kansai put it, and "transfer" is last
C12_Witness ==
  /\ EmbeddedA
  /\ pc = "done"
  /\ KeySeq(LastWritten)[Len(LastWritten)] = "transfer"
  /\ \E k \in Keys(KANSAI_LINES) \cap Keys(TOKYO_LINES) :
        /\ Get(all_lines, k) # Get(KANSAI_LINES, k)
        /\ IndexOf(all_lines, k) = IndexOf(KANSAI_LINES, k)

\* The table main hands to json.dump
BuiltTable == IF script = "A" THEN all_lines ELSE line_data

\* C13: within a run the file is written once, from the completely built
\* table, which does not change afterwards; the summary is printed only after
\* that write; a failure to open or write ends the run with the OSError, with
\* no second attempt and no summary.
C13_WriteOnceThenPrint ==
  [][ /\ written' # written =>
            /\ pc \in {"A_write", "B_write"}
            /\ pc' \in {"A_print", "B_print"}
            /\ written' = Append(written, Serialize(BuiltTable))
      /\ (pc' \in {"A_print", "B_print"} /\ pc' # pc) =>
            /\ pc \in {"A_write", "B_write"}
            /\ written' # written
      /\ (pc \in {"A_write", "B_write", "A_print", "B_print"}) =>
            /\ BuiltTable' = BuiltTable
            /\ pc' \notin {"A_create", "A_update_kansai", "A_update_tokyo", "A_transfer",
                           "B_call", "B_resolve", "B_additional"}
      /\ (stdout' # stdout /\ run' = run) =>
            /\ pc \in {"A_print", "B_print"}
            /\ pc' = "done"
            /\ written' = written
            /\ Len(written) > 0
      /\ pc \in {"A_print", "B_print"} => pc' = "done"
      /\ (pc' = "raised" /\ pc # "raised") =>
            /\ pc \in {"A_write", "B_write"}
            /\ error' = "OSError"
            /\ written' = written
            /\ stdout' = <<>>
      /\ pc \in {"done", "raised"} =>
            /\ run' = run + 1
            /\ written' = written ]_vars

\* A run has failed to write its built table: it ended with the OSError and
\* printed nothing, after an earlier run had written the file
C13_Witness ==
  /\ pc = "raised"
  /\ error = "OSError"
  /\ stdout = <<>>
  /\ run = 2
  /\ Len(written) = 1
  /\ Len(BuiltTable) > 1

\* C14: no step of either script changes a source table: KANSAI_LINES and
\* TOKYO_LINES through main of Variant A, the transfer entry included, and
\* WIKIPEDIA_COLORS, JAPANESE_TO_WIKI and ADDITIONAL_COLORS through
\* generate_line_data keep their keys and values.
C14_SourcesUnchanged ==
  [][tables' = tables]_vars

\* A run of the shipped Variant A has ended: its table has the transfer entry
\* and Tokyo's record of the common key, and the source tables are as loaded
C14_Witness ==
  /\ EmbeddedA
  /\ pc = "done"
  /\ Has(all_lines, "transfer")
  /\ ~Has(TOKYO_LINES, "transfer")
  /\ ~Has(KANSAI_LINES, "transfer")
  /\ \E k \in Keys(KANSAI_LINES) : Get(all_lines, k) # Get(KANSAI_LINES, k)

\* The key that JAPANESE_TO_WIKI lists at line 177 with JC and at line 290 with MC
ChuoLine == "{4E2D}{592E}{7DDA}"

\* C15: a key that the display of JAPANESE_TO_WIKI lists more than once has
\* one entry in Variant B's table, resolved through the code listed last: the
\* key listed with JC and later with MC has MC's row, operator Osaka Metro.
C15_LastListedCode ==
  (EmbeddedB /\ BuiltB) =>
     /\ \A m \in DOMAIN JapaneseToWikiLiteral :
           LET k == JapaneseToWikiLiteral[m][1]
               code == JapaneseToWikiLiteral[m][2]
           IN (\A n \in DOMAIN JapaneseToWikiLiteral :
                  n > m => JapaneseToWikiLiteral[n][1] # k) =>
                /\ Cardinality({j \in DOMAIN line_data : line_data[j][1] = k}) = 1
                /\ Get(line_data, k).color = <<"#">> \o Get(WIKIPEDIA_COLORS, code)[1]
                /\ Get(line_data, k).en = Get(WIKIPEDIA_COLORS, code)[2]
                /\ Get(line_data, k).operator = Get(WIKIPEDIA_COLORS, code)[3]
     /\ Get(line_data, ChuoLine).operator = "Osaka Metro"
     /\ Get(line_data, ChuoLine).color = <<"#">> \o Get(WIKIPEDIA_COLORS, "MC")[1]
     /\ Get(line_data, ChuoLine) # [color |-> <<"#">> \o Get(WIKIPEDIA_COLORS, "JC")[1],
                                 en |-> Get(WIKIPEDIA_COLORS, "JC")[2],
                                 operator |-> Get(WIKIPEDIA_COLORS, "JC")[3],
                                 source |-> "wikipedia"]

\* The shipped Variant B has built its table; the display lists the key with
\* JC and, later, with MC, and the two codes have different rows
C15_Witness ==
  /\ EmbeddedB
  /\ pc = "done"
  /\ \E a, b \in DOMAIN JapaneseToWikiLiteral :
        /\ a < b
        /\ JapaneseToWikiLiteral[a] = <<ChuoLine, "JC">>
        /\ JapaneseToWikiLiteral[b] = <<ChuoLine, "MC">>
  /\ Get(WIKIPEDIA_COLORS, "JC") # Get(WIKIPEDIA_COLORS, "MC")
  /\ Has(line_data, ChuoLine)

\* C16: every entry of Variant B's table tagged "manual" has its own key as
\* en and the colour ADDITIONAL_COLORS gives for that key.
C16_ManualEntries ==
  BuiltB =>
     \A j \in DOMAIN line_data :
        line_data[j][2].source = "manual" =>
           /\ line_data[j][2].en = line_data[j][1]
           /\ Has(ADDITIONAL_COLORS, line_data[j][1])
           /\ line_data[j][2].color = Get(ADDITIONAL_COLORS, line_data[j][1])

\* The shipped Variant B has built its table, with manual entries, the one of
\* "transfer" among them
C16_Witness ==
  /\ EmbeddedB
  /\ pc = "B_print"
  /\ Has(line_data, "transfer")
  /\ Get(line_data, "transfer").source = "manual"
  /\ Get(line_data, "transfer").en = "transfer"

=============================================================================
